---- MODULE Spec2Model ----
(***************************************************************************)
(* State-machine model of hapi: the SQLite-backed Store (versioned         *)
(* session/machine rows and the per-session message log), the paging of    *)
(* SyncEngine.getMessagesPage, and the daemon lock file of the CLI.        *)
(*                                                                         *)
(* A SQL column that may be NULL is a sequence: <<>> is NULL, <<x>> holds  *)
(* x.  A JSON text column holds <<v>> for JSON.stringify(v).               *)
(***************************************************************************)
EXTENDS Integers, Sequences, FiniteSets, TLC

\* ---------------------------------------------------------------- bounds
MaxSessions == 2
MaxRows == 1
MaxVersion == 2
MaxTime == 2
MaxMessages == 3

Tags == {"t1", "t2"}
Namespaces == {"n1", "n2"}
MachineIds == {"m1"}
\* connections open on the database file
Conns == {"c1", "c2"}
\* CLI processes on the host
MaxProcs == 3
Pids == 1..MaxProcs
\* JavaScript values handed to the store: null and two JSON objects.
Values == {"null", "a"}
SessionIds == 1..MaxSessions
\* message contents
Contents == {"hi", "yo"}
\* the localId argument of addMessage: undefined (NULL), "" and a client id
LocalIds == {<<>>, <<"">>, <<"m1">>}

VARIABLES
    sessions,    \* table sessions: id -> row
    machines,    \* table machines: id -> row
    messages,    \* table messages: set of rows
    nextId,      \* next session id randomUUID() hands out
    nextMsgId,   \* next message id randomUUID() hands out
    now,         \* Date.now()
    ret,         \* the last call and what it returned: [op, args, out]
    calls,       \* per database connection: the Store call it is executing
    lockFile,    \* the daemon lock file: absent, or its inode and content
    procs,       \* per CLI process: alive, position in acquireDaemonLock, handle
    nextIno,     \* inodes handed out so far, plus one
    settingsLock,  \* settings.json.lock: absent, or its inode and mtime
    settingsFile,  \* settings.json: the set of updaters applied to it
    settingsTmp,   \* settings.json.tmp: absent, or the document written to it
    updaters,      \* per CLI process: its position in updateSettings
    fsNow,         \* Date.now() of the CLI processes, ms
    engine,          \* SyncEngine: its session, its machine, lastBroadcastAt of each
    handled,         \* the last SyncEngine call and the events it emitted
    clock,           \* Date.now() of the server, ms
    inactivityTimer, \* the setInterval timer: "armed", "due" or "cleared"
    cache,           \* SyncEngine over the store: sessions by row id,
                     \* lastBroadcastAtBySessionId, todoBackfillAttemptedSessionIds,
                     \* sessionMessages, and what sendMessage has emitted so far
    rpc,             \* the /cli sockets, the RpcRegistry and the rpcCalls made
    db,              \* the database file: user_version, its tables, the opens so far
    daemon,          \* ApiMachineClient: its machine and the update it is making
    alive,           \* ApiMachineClient: its socket, its keep-alive timers, its clock,
                     \* and the machine-alive messages on their way to the server
    local,           \* codexLocalLauncher: its position, exitReason, exitFuture, the
                     \* abort signal, the queue, and the handlers awaiting exitFuture
    remote,          \* CodexRemoteLauncher.runMainLoop: its position and locals, the
                     \* queue, and the messages taken and handed to the client so far
    controls,        \* useSwitchControls: its options, its two states, the timer, what
                     \* the input handler sees, and the callbacks scheduled and invoked
    overrides,       \* parseCodexCliOverrides: its args and what it returned
    startConfig      \* buildCodexStartConfig: its args and what it returned

storeVars == <<sessions, machines, messages, nextId, nextMsgId, now, ret>>

\* what the synchronous Store calls leave alone
lockVars == <<lockFile, procs, nextIno>>

settingsVars == <<settingsLock, settingsFile, settingsTmp, updaters, fsNow>>

engineVars == <<engine, handled, clock, inactivityTimer>>

\* the CLI's clients and launchers
codexVars == <<overrides, startConfig>>

clientVars == <<daemon, alive, local, remote, controls>>

\* the server's side
serverVars == <<storeVars, calls, lockVars, settingsVars, engineVars, cache, rpc, db>>

\* what codexLocalLauncher leaves alone
outsideLocal == <<serverVars, daemon, alive, remote, controls, codexVars>>

\* what CodexRemoteLauncher leaves alone
outsideRemote == <<serverVars, daemon, alive, local, controls, codexVars>>

\* what useSwitchControls leaves alone
outsideControls == <<serverVars, daemon, alive, local, remote, codexVars>>

cliVars == <<clientVars, codexVars>>

outsideStore == <<calls, lockVars, settingsVars, engineVars, cache, rpc, db, cliVars>>

\* what the calls made through the connections leave alone
outsideConns == <<lockVars, settingsVars, engineVars, cache, rpc, db, cliVars>>

\* what the CLI processes leave alone
outsideLock == <<storeVars, calls, settingsVars, engineVars, cache, rpc, db, cliVars>>

\* what updateSettings leaves alone
outsideSettings == <<storeVars, calls, lockVars, engineVars, cache, rpc, db, cliVars>>

\* what the SyncEngine's heartbeat handlers and sweep leave alone
outsideEngine == <<storeVars, calls, lockVars, settingsVars, cache, rpc, db, cliVars>>

\* what the SyncEngine's refreshes leave alone
outsideCache == <<machines, nextId, nextMsgId, now, calls, lockVars, settingsVars,
                  engine, clock, inactivityTimer, rpc, db, cliVars>>

\* what the sockets and the rpcCalls leave alone
outsideRpc == <<storeVars, calls, lockVars, settingsVars, engine, handled,
                inactivityTimer, cache, db, cliVars>>

\* what opening the database leaves alone
outsideDb == <<storeVars, calls, lockVars, settingsVars, engineVars, cache, rpc, cliVars>>

\* what the daemon's client leaves alone
outsideDaemon == <<sessions, messages, nextId, nextMsgId, ret, calls, lockVars, settingsVars,
                   engineVars, cache, rpc, db, alive, local, remote, controls, codexVars>>

\* what the keep-alive of the ApiMachineClient leaves alone, the engine apart
outsideAlive == <<storeVars, calls, lockVars, settingsVars, cache, rpc, db, daemon, local,
                  remote, controls, codexVars>>

\* what the two pure functions of codex/utils leave alone
outsideCodex == <<storeVars, calls, lockVars, settingsVars, engineVars, cache, rpc, db, clientVars>>

vars == <<storeVars, calls, lockVars, settingsVars, engineVars, cache, rpc, db, cliVars>>

NULL == <<>>

\* ------------------------------------------------------------ JSON columns
JSONstringify(v) == <<v>>

\* agentState === null || agentState === undefined ? null : JSON.stringify(agentState)
NullableJson(v) == IF v = "null" THEN NULL ELSE JSONstringify(v)

safeJsonParse(col) == IF col = NULL THEN "null" ELSE col[1]

\* ---------------------------------------------------------------- sessions
EmptyTable == [i \in {} |-> 0]

NewSessionRow(id, tag, namespace, metadata, agentState, t) ==
    [id |-> id, tag |-> tag, namespace |-> namespace, machine_id |-> NULL,
     created_at |-> t, updated_at |-> t,
     metadata |-> JSONstringify(metadata), metadata_version |-> 1,
     agent_state |-> NullableJson(agentState), agent_state_version |-> 1,
     todos |-> NULL, todos_updated_at |-> NULL,
     active |-> 0, active_at |-> NULL, seq |-> 0]

toStoredSession(row) ==
    [id |-> row.id, tag |-> row.tag, namespace |-> row.namespace,
     createdAt |-> row.created_at, updatedAt |-> row.updated_at,
     metadata |-> safeJsonParse(row.metadata), metadataVersion |-> row.metadata_version,
     agentState |-> safeJsonParse(row.agent_state), agentStateVersion |-> row.agent_state_version,
     todos |-> safeJsonParse(row.todos), todosUpdatedAt |-> row.todos_updated_at,
     active |-> (row.active = 1), activeAt |-> row.active_at, seq |-> row.seq]

\* SELECT * FROM sessions WHERE tag = ? AND namespace = ? ORDER BY created_at DESC LIMIT 1
SelectSessionByTag(rows, tag, namespace) ==
    LET hits == {i \in DOMAIN rows : rows[i].tag = tag /\ rows[i].namespace = namespace}
    IN  {i \in hits : \A j \in hits : rows[j].created_at <= rows[i].created_at}

GetOrCreateSessionUpsert(tag, metadata, agentState, namespace) ==
    LET existing == SelectSessionByTag(sessions, tag, namespace)
        args == [tag |-> tag, metadata |-> metadata, agentState |-> agentState,
                 namespace |-> namespace]
    IN  IF existing # {}
        THEN /\ \E i \in existing :
                   /\ sessions' = [sessions EXCEPT ![i].metadata = JSONstringify(metadata)]
                   /\ ret' = [op |-> "getOrCreateSession", args |-> args, created |-> FALSE,
                              out |-> toStoredSession(sessions'[i])]
             /\ UNCHANGED <<machines, messages, nextId, nextMsgId, now>>
        ELSE /\ sessions' = sessions @@
                    (nextId :> NewSessionRow(nextId, tag, namespace, metadata, agentState, now))
             /\ nextId' = nextId + 1
             /\ ret' = [op |-> "getOrCreateSession", args |-> args, created |-> TRUE,
                        out |-> toStoredSession(sessions'[nextId])]
             /\ UNCHANGED <<machines, messages, nextMsgId, now>>

GetOrCreateSession(tag, metadata, agentState, namespace) ==
    LET existing == SelectSessionByTag(sessions, tag, namespace)
        args == [tag |-> tag, metadata |-> metadata, agentState |-> agentState,
                 namespace |-> namespace]
    IN  IF existing # {}
        THEN /\ \E i \in existing :
                   ret' = [op |-> "getOrCreateSession", args |-> args, created |-> FALSE,
                           out |-> toStoredSession(sessions[i])]
             /\ UNCHANGED <<sessions, machines, messages, nextId, nextMsgId, now>>
        ELSE /\ sessions' = sessions @@
                    (nextId :> NewSessionRow(nextId, tag, namespace, metadata, agentState, now))
             /\ nextId' = nextId + 1
             /\ ret' = [op |-> "getOrCreateSession", args |-> args, created |-> TRUE,
                        out |-> toStoredSession(sessions'[nextId])]
             /\ UNCHANGED <<machines, messages, nextMsgId, now>>

MatchesAnyNamespace(rows, id, namespace, vcol, expectedVersion) ==
    {i \in DOMAIN rows : i = id /\ rows[i][vcol] = expectedVersion}

MatchesAnyVersion(rows, id, namespace, vcol, expectedVersion) ==
    {i \in DOMAIN rows : i = id /\ rows[i].namespace = namespace}

\* The rows an updateX statement selects:
\* WHERE id = @id AND namespace = @namespace AND <vcol> = @expectedVersion
Matches(rows, id, namespace, vcol, expectedVersion) ==
    {i \in DOMAIN rows : /\ i = id
                         /\ rows[i].namespace = namespace
                         /\ rows[i][vcol] = expectedVersion}

\* UPDATE sessions SET metadata = ..., metadata_version = metadata_version + 1,
\*   updated_at = CASE ..., seq = seq + 1
\* WHERE id = @id AND namespace = @namespace AND metadata_version = @expectedVersion
SqlUpdateSessionMetadata(rows, id, json, expectedVersion, namespace, touch, t) ==
    [i \in DOMAIN rows |->
        IF i \in Matches(rows, id, namespace, "metadata_version", expectedVersion)
        THEN [rows[i] EXCEPT !.metadata = json,
                             !.metadata_version = @ + 1,
                             !.updated_at = IF touch THEN t ELSE @,
                             !.seq = @ + 1]
        ELSE rows[i]]

SqlUpdateSessionAgentState(rows, id, json, expectedVersion, namespace, t) ==
    [i \in DOMAIN rows |->
        IF i \in Matches(rows, id, namespace, "agent_state_version", expectedVersion)
        THEN [rows[i] EXCEPT !.agent_state = json,
                             !.agent_state_version = @ + 1,
                             !.updated_at = t,
                             !.seq = @ + 1]
        ELSE rows[i]]

\* result.changes: the number of rows the UPDATE statement changed
Changes(rows, id, namespace, vcol, expectedVersion) ==
    Cardinality(Matches(rows, id, namespace, vcol, expectedVersion))

\* SELECT col, col_version FROM table WHERE id = ? AND namespace = ?
SelectCurrent(rows, id, namespace) ==
    {i \in DOMAIN rows : i = id /\ rows[i].namespace = namespace}

SuccessStaleVersion(expectedVersion, value) ==
    [result |-> "success", version |-> expectedVersion, value |-> value]

Success(expectedVersion, value) ==
    [result |-> "success", version |-> expectedVersion + 1, value |-> value]

VersionMismatch(version, col) ==
    [result |-> "version-mismatch", version |-> version, value |-> safeJsonParse(col)]

Error == [result |-> "error"]

UpdateOutcomeEchoesSubmitted(changes, rows, id, namespace, expectedVersion, value, vcol, col) ==
    IF changes = 1
    THEN Success(expectedVersion, value)
    ELSE LET current == SelectCurrent(rows, id, namespace)
         IN  IF current = {}
             THEN Error
             ELSE [result |-> "version-mismatch", version |-> rows[id][vcol], value |-> value]

\* The part of an updateX after its UPDATE statement: the result it returns.
\* changes is result.changes of the UPDATE, rows the table the SELECT reads.
UpdateOutcome(changes, rows, id, namespace, expectedVersion, value, vcol, col) ==
    IF changes = 1
    THEN Success(expectedVersion, value)
    ELSE LET current == SelectCurrent(rows, id, namespace)
         IN  IF current = {}
             THEN Error
             ELSE VersionMismatch(rows[id][vcol], rows[id][col])

UpdateSessionMetadata(id, metadata, expectedVersion, namespace, touch, fault) ==
    LET args == [id |-> id, value |-> metadata, expectedVersion |-> expectedVersion,
                 namespace |-> namespace, fault |-> fault, touch |-> touch]
        after == SqlUpdateSessionMetadata(sessions, id, JSONstringify(metadata),
                                          expectedVersion, namespace, touch, now)
    IN  IF fault
        THEN /\ ret' = [op |-> "updateSessionMetadata", args |-> args, out |-> Error]
             /\ UNCHANGED <<sessions, machines, messages, nextId, nextMsgId, now>>
        ELSE /\ \A i \in DOMAIN after : after[i].metadata_version <= MaxVersion
             /\ sessions' = after
             /\ ret' = [op |-> "updateSessionMetadata", args |-> args,
                        out |-> UpdateOutcome(Changes(sessions, id, namespace, "metadata_version",
                                                      expectedVersion),
                                              after, id, namespace, expectedVersion,
                                              metadata, "metadata_version", "metadata")]
             /\ UNCHANGED <<machines, messages, nextId, nextMsgId, now>>

UpdateSessionAgentState(id, agentState, expectedVersion, namespace, fault) ==
    LET args == [id |-> id, value |-> agentState, expectedVersion |-> expectedVersion,
                 namespace |-> namespace, fault |-> fault]
        after == SqlUpdateSessionAgentState(sessions, id, NullableJson(agentState),
                                            expectedVersion, namespace, now)
    IN  IF fault
        THEN /\ ret' = [op |-> "updateSessionAgentState", args |-> args, out |-> Error]
             /\ UNCHANGED <<sessions, machines, messages, nextId, nextMsgId, now>>
        ELSE /\ \A i \in DOMAIN after : after[i].agent_state_version <= MaxVersion
             /\ sessions' = after
             /\ ret' = [op |-> "updateSessionAgentState", args |-> args,
                        out |-> UpdateOutcome(Changes(sessions, id, namespace, "agent_state_version",
                                                      expectedVersion),
                                              after, id, namespace, expectedVersion,
                                              agentState, "agent_state_version", "agent_state")]
             /\ UNCHANGED <<machines, messages, nextId, nextMsgId, now>>

\* DELETE FROM sessions WHERE id = ? AND namespace = ?  (messages cascade)
DeleteSession(id, namespace) ==
    LET gone == {i \in DOMAIN sessions : i = id /\ sessions[i].namespace = namespace}
    IN  /\ sessions' = [i \in DOMAIN sessions \ gone |-> sessions[i]]
        /\ messages' = {m \in messages : m.session_id \notin gone}
        /\ ret' = [op |-> "deleteSession", args |-> [id |-> id, namespace |-> namespace],
                   out |-> (gone # {})]
        /\ UNCHANGED <<machines, nextId, nextMsgId, now>>

\* ---------------------------------------------------------------- machines
NewMachineRow(id, namespace, metadata, daemonState, t) ==
    [id |-> id, namespace |-> namespace, created_at |-> t, updated_at |-> t,
     metadata |-> JSONstringify(metadata), metadata_version |-> 1,
     daemon_state |-> NullableJson(daemonState), daemon_state_version |-> 1,
     active |-> 0, active_at |-> NULL, seq |-> 0]

toStoredMachine(row) ==
    [id |-> row.id, namespace |-> row.namespace,
     createdAt |-> row.created_at, updatedAt |-> row.updated_at,
     metadata |-> safeJsonParse(row.metadata), metadataVersion |-> row.metadata_version,
     daemonState |-> safeJsonParse(row.daemon_state),
     daemonStateVersion |-> row.daemon_state_version,
     active |-> (row.active = 1), activeAt |-> row.active_at, seq |-> row.seq]

GetOrCreateMachine(id, metadata, daemonState, namespace) ==
    LET args == [id |-> id, metadata |-> metadata, daemonState |-> daemonState,
                 namespace |-> namespace]
    IN
    IF id \in DOMAIN machines
    THEN /\ ret' = [op |-> "getOrCreateMachine", args |-> args, created |-> FALSE,
                    out |-> IF machines[id].namespace # namespace
                            THEN [threw |-> "Machine namespace mismatch"]
                            ELSE toStoredMachine(machines[id])]
         /\ UNCHANGED <<sessions, machines, messages, nextId, nextMsgId, now>>
    ELSE /\ machines' = machines @@ (id :> NewMachineRow(id, namespace, metadata, daemonState, now))
         /\ ret' = [op |-> "getOrCreateMachine", args |-> args, created |-> TRUE,
                    out |-> toStoredMachine(machines'[id])]
         /\ UNCHANGED <<sessions, messages, nextId, nextMsgId, now>>

SqlUpdateMachineMetadata(rows, id, json, expectedVersion, namespace, t) ==
    [i \in DOMAIN rows |->
        IF i \in Matches(rows, id, namespace, "metadata_version", expectedVersion)
        THEN [rows[i] EXCEPT !.metadata = json,
                             !.metadata_version = @ + 1,
                             !.updated_at = t,
                             !.seq = @ + 1]
        ELSE rows[i]]

SqlUpdateMachineDaemonState(rows, id, json, expectedVersion, namespace, t) ==
    [i \in DOMAIN rows |->
        IF i \in Matches(rows, id, namespace, "daemon_state_version", expectedVersion)
        THEN [rows[i] EXCEPT !.daemon_state = json,
                             !.daemon_state_version = @ + 1,
                             !.updated_at = t,
                             !.active = 1,
                             !.active_at = <<t>>,
                             !.seq = @ + 1]
        ELSE rows[i]]

UpdateMachineMetadata(id, metadata, expectedVersion, namespace, fault) ==
    LET args == [id |-> id, value |-> metadata, expectedVersion |-> expectedVersion,
                 namespace |-> namespace, fault |-> fault]
        after == SqlUpdateMachineMetadata(machines, id, JSONstringify(metadata),
                                          expectedVersion, namespace, now)
    IN  IF fault
        THEN /\ ret' = [op |-> "updateMachineMetadata", args |-> args, out |-> Error]
             /\ UNCHANGED <<sessions, machines, messages, nextId, nextMsgId, now>>
        ELSE /\ \A i \in DOMAIN after : after[i].metadata_version <= MaxVersion
             /\ machines' = after
             /\ ret' = [op |-> "updateMachineMetadata", args |-> args,
                        out |-> UpdateOutcome(Changes(machines, id, namespace, "metadata_version",
                                                      expectedVersion),
                                              after, id, namespace, expectedVersion,
                                              metadata, "metadata_version", "metadata")]
             /\ UNCHANGED <<sessions, messages, nextId, nextMsgId, now>>

UpdateMachineDaemonState(id, daemonState, expectedVersion, namespace, fault) ==
    LET args == [id |-> id, value |-> daemonState, expectedVersion |-> expectedVersion,
                 namespace |-> namespace, fault |-> fault]
        after == SqlUpdateMachineDaemonState(machines, id, NullableJson(daemonState),
                                             expectedVersion, namespace, now)
    IN  IF fault
        THEN /\ ret' = [op |-> "updateMachineDaemonState", args |-> args, out |-> Error]
             /\ UNCHANGED <<sessions, machines, messages, nextId, nextMsgId, now>>
        ELSE /\ \A i \in DOMAIN after : after[i].daemon_state_version <= MaxVersion
             /\ machines' = after
             /\ ret' = [op |-> "updateMachineDaemonState", args |-> args,
                        out |-> UpdateOutcome(Changes(machines, id, namespace, "daemon_state_version",
                                                      expectedVersion),
                                              after, id, namespace, expectedVersion,
                                              daemonState, "daemon_state_version", "daemon_state")]
             /\ UNCHANGED <<sessions, messages, nextId, nextMsgId, now>>

\* ---------------------------------------------------------------- messages
toStoredMessage(row) ==
    [id |-> row.id, sessionId |-> row.session_id, content |-> safeJsonParse(row.content),
     createdAt |-> row.created_at, seq |-> row.seq, localId |-> row.local_id]

\* if (localId): undefined and the empty string are falsy
Truthy(localId) == localId # NULL /\ localId # <<"">>

\* SELECT * FROM messages WHERE session_id = ? AND local_id = ? LIMIT 1
SelectByLocalId(rows, sessionId, localId) ==
    {m \in rows : m.session_id = sessionId /\ m.local_id = localId}

Max(S) == CHOOSE x \in S : \A y \in S : y <= x

NextSeqAcrossSessions(rows, sessionId) ==
    LET seqs == {m.seq : m \in rows}
    IN  (IF seqs = {} THEN 0 ELSE Max(seqs)) + 1

\* SELECT COALESCE(MAX(seq), 0) + 1 AS nextSeq FROM messages WHERE session_id = ?
NextSeq(rows, sessionId) ==
    LET seqs == {m.seq : m \in {r \in rows : r.session_id = sessionId}}
    IN  (IF seqs = {} THEN 0 ELSE Max(seqs)) + 1

\* The constraints an INSERT INTO messages must meet: the id is new, the session
\* exists (foreign key), and idx_messages_local_id (unique on session_id, local_id
\* where local_id is not NULL).
InsertAllowed(rows, sessionRows, row) ==
    /\ \A m \in rows : m.id # row.id
    /\ row.session_id \in DOMAIN sessionRows
    /\ row.local_id # NULL
        => \A m \in rows : ~(m.session_id = row.session_id /\ m.local_id = row.local_id)

SqliteConstraint == [threw |-> "SQLITE_CONSTRAINT"]

AddMessage(sessionId, content, localId) ==
    LET args == [sessionId |-> sessionId, content |-> content, localId |-> localId]
        existing == IF Truthy(localId)
                    THEN SelectByLocalId(messages, sessionId, localId)
                    ELSE {}
        row == [id |-> nextMsgId, session_id |-> sessionId,
                content |-> JSONstringify(content), created_at |-> now,
                seq |-> NextSeq(messages, sessionId), local_id |-> localId]
    IN  IF existing # {}
        THEN /\ \E m \in existing :
                   ret' = [op |-> "addMessage", args |-> args, out |-> toStoredMessage(m)]
             /\ UNCHANGED <<sessions, machines, messages, nextId, nextMsgId, now>>
        ELSE IF ~InsertAllowed(messages, sessions, row)
        THEN /\ ret' = [op |-> "addMessage", args |-> args, out |-> SqliteConstraint]
             /\ UNCHANGED <<sessions, machines, messages, nextId, nextMsgId, now>>
        ELSE /\ messages' = messages \cup {row}
             /\ nextMsgId' = nextMsgId + 1
             /\ ret' = [op |-> "addMessage", args |-> args, out |-> toStoredMessage(row)]
             /\ UNCHANGED <<sessions, machines, nextId, now>>

Tick ==
    /\ now < MaxTime
    /\ now' = now + 1
    /\ ret' = [op |-> "tick"]
    /\ UNCHANGED <<sessions, machines, messages, nextId, nextMsgId>>

\* rows inserted into sessions and machines so far
Inserted == (nextId - 1) + Cardinality(DOMAIN machines)

Idle == [pc |-> "idle"]

\* opens counts the open() calls of the current or last acquireDaemonLock, delays
\* lists the waits it made (ms), result is "null" once it returned null
IdleProc == [alive |-> TRUE, pc |-> "idle", attempt |-> 0, maxAttempts |-> 0,
             delayIncrementMs |-> 0, handle |-> NULL, lockPid |-> NULL,
             opens |-> 0, delays |-> <<>>, result |-> "none"]

\* CLI processes that update the settings
MaxUpdaters == 2
Updaters == 1..MaxUpdaters

\* called counts the updater calls of the current or last updateSettings
IdleUpdater == [alive |-> TRUE, pc |-> "idle", attempts |-> 0, handle |-> NULL,
                current |-> {}, called |-> 0, result |-> "none"]

\* Date.now() when the SyncEngine is constructed, and created_at of the session
\* and the machine its reloadAll finds in the database
StartClock == 1000000
CreatedAt == StartClock - 600000

\* refreshSession and refreshMachine of a stored row the engine has not seen.
\* The session's row has active = 0 and active_at = NULL (no statement writes
\* them), so activeAt is createdAt; the machine's row was left active by an
\* updateMachineDaemonState of an earlier run of the server.
\* late records that the entity was last made active with an activeAt that
\* was already past the inactivity timeout.  thinkingAt, which the
\* handlers assign and nothing reads, is left out.
LoadedSession == [id |-> "s1", active |-> FALSE, activeAt |-> CreatedAt,
                  thinking |-> FALSE, late |-> FALSE]
LoadedMachine == [id |-> "m1", active |-> TRUE, activeAt |-> CreatedAt, late |-> TRUE]

Constructed == [op |-> "constructor", events |-> <<>>]
Elapsed == [op |-> "none", events |-> <<>>]

\* the SyncEngine after its constructor: reloadAll, then setInterval
InitEngine ==
    /\ engine = [session |-> LoadedSession, machine |-> LoadedMachine,
                 lastBroadcastAtBySessionId |-> 0, lastBroadcastAtByMachineId |-> 0]
    /\ handled = Constructed
    /\ clock = StartClock
    /\ inactivityTimer = "armed"

\* no session in memory: the database was empty when reloadAll ran
EmptyCache == [sessions |-> <<>>, lastBroadcastAtBySessionId |-> <<>>,
               todoBackfillAttemptedSessionIds |-> {},
               sessionMessages |-> <<>>, emitted |-> <<>>]

\* no socket has connected and no rpcCall was made
NoRpc == [sockets |-> <<>>, rpcRegistry |-> <<>>, requests |-> <<>>]

\* new ApiMachineClient(token, machine), with the machine as registered
NewClient == [metadata |-> "a", metadataVersion |-> 1,
              daemonState |-> "null", daemonStateVersion |-> 1,
              pc |-> "idle", tries |-> 0, answer |-> NULL]

\* nothing parsed, nothing built
NotCalled == [args |-> NULL, out |-> NULL]

\* not connected yet, no timer, the clock of the server
NewAlive == [connected |-> FALSE, connects |-> 0, heard |-> FALSE, keepAliveInterval |-> NULL,
             timers |-> {}, skewMs |-> 0, wire |-> {}]

InitDaemon ==
    /\ daemon = NewClient

\* codexLocalLauncher entered: exitReason = null, a fresh AbortController and
\* Future, buildHapiMcpBridge awaited; the session's queue is empty
Launched == [pc |-> "bridge", exitReason |-> "null", aborted |-> FALSE,
             exitFuture |-> "pending", handlers |-> "none", waiting |-> {},
             queue |-> 0, returning |-> "null", returned |-> "null"]

\* runMainLoop after client.connect(), at its first wait for messages
Looping == [pc |-> "waiting", shouldExit |-> FALSE, exitReason |-> "null", signal |-> FALSE,
            wasCreated |-> FALSE, currentModeHash |-> "null", pending |-> NULL,
            first |-> TRUE, turn |-> "none", queue |-> <<>>, queued |-> 0,
            taken |-> <<>>, handed |-> <<>>, modeChanges |-> 0]

\* useSwitchControls at its first render, with both callbacks and no
\* confirmationTimeoutMs given
Mounted == [onExit |-> TRUE, onSwitch |-> TRUE, confirmationTimeoutMs |-> NULL,
            running |-> TRUE, confirmationMode |-> "null", actionInProgress |-> "null",
            confirmationTimeoutRef |-> NULL,
            seen |-> [confirmationMode |-> "null", actionInProgress |-> "null"],
            scheduled |-> <<>>, invoked |-> <<>>, pressed |-> "none", since |-> 0]

InitLaunchers ==
    /\ local = Launched
    /\ remote = Looping
    /\ controls = Mounted

InitClients ==
    /\ InitDaemon
    /\ alive = NewAlive
    /\ InitLaunchers

InitCodex ==
    /\ overrides = NotCalled
    /\ startConfig = NotCalled

InitCli ==
    /\ InitClients
    /\ InitCodex

InitLock ==
    /\ InitEngine
    /\ cache = EmptyCache
    /\ rpc = NoRpc
    /\ lockFile = NULL
    /\ procs = [p \in Pids |-> IdleProc]
    /\ nextIno = 1
    /\ settingsLock = NULL
    /\ settingsFile = {}
    /\ settingsTmp = NULL
    /\ updaters = [p \in Updaters |-> IdleUpdater]
    /\ fsNow = 0

\* const SCHEMA_VERSION = 1
SCHEMA_VERSION == 1

REQUIRED_TABLES == {"sessions", "machines", "messages", "users", "push_subscriptions"}

\* the definition createSchema gives a table
Current == "current"

\* the database a Store has created
CreatedDb == [user_version |-> SCHEMA_VERSION,
              tables |-> [name \in REQUIRED_TABLES |-> Current],
              opened |-> <<"">>]

\* an empty database, opened by a Store
InitRows ==
    /\ sessions = EmptyTable
    /\ machines = EmptyTable
    /\ messages = {}
    /\ nextId = 1
    /\ nextMsgId = 1
    /\ now = 1
    /\ ret = [op |-> "init"]
    /\ calls = [c \in Conns |-> Idle]
    /\ InitLock

InitServer == InitRows /\ db = CreatedDb

InitStore == InitServer /\ InitCli

NextStore ==
    \/ \E tag \in Tags, metadata \in Values, agentState \in Values, namespace \in Namespaces :
          /\ SelectSessionByTag(sessions, tag, namespace) # {} \/ Inserted < MaxRows
          /\ GetOrCreateSession(tag, metadata, agentState, namespace)
          /\ UNCHANGED outsideStore
    \/ \E id \in SessionIds, metadata \in Values, expectedVersion \in 1..MaxVersion,
          namespace \in Namespaces, touch \in BOOLEAN, fault \in BOOLEAN :
          /\ UpdateSessionMetadata(id, metadata, expectedVersion, namespace, touch, fault)
          /\ UNCHANGED outsideStore
    \/ \E id \in SessionIds, agentState \in Values, expectedVersion \in 1..MaxVersion,
          namespace \in Namespaces, fault \in BOOLEAN :
          /\ UpdateSessionAgentState(id, agentState, expectedVersion, namespace, fault)
          /\ UNCHANGED outsideStore
    \/ \E id \in SessionIds, namespace \in Namespaces :
          DeleteSession(id, namespace) /\ UNCHANGED outsideStore
    \/ \E id \in MachineIds, metadata \in Values, daemonState \in Values, namespace \in Namespaces :
          /\ id \in DOMAIN machines \/ Inserted < MaxRows
          /\ GetOrCreateMachine(id, metadata, daemonState, namespace)
          /\ UNCHANGED outsideStore
    \/ \E id \in MachineIds, metadata \in Values, expectedVersion \in 1..MaxVersion,
          namespace \in Namespaces, fault \in BOOLEAN :
          /\ UpdateMachineMetadata(id, metadata, expectedVersion, namespace, fault)
          /\ UNCHANGED outsideStore
    \/ \E id \in MachineIds, daemonState \in Values, expectedVersion \in 1..MaxVersion,
          namespace \in Namespaces, fault \in BOOLEAN :
          /\ UpdateMachineDaemonState(id, daemonState, expectedVersion, namespace, fault)
          /\ UNCHANGED outsideStore
    \/ Tick /\ UNCHANGED outsideStore

SpecStore == InitStore /\ [][NextStore]_vars

\* Sessions only, several rows at once: get-or-create by tag, the versioned
\* updates and deletion.
NextTags ==
    \/ \E tag \in Tags, metadata \in Values, agentState \in Values, namespace \in Namespaces :
          /\ SelectSessionByTag(sessions, tag, namespace) # {} \/ nextId <= MaxSessions
          /\ GetOrCreateSession(tag, metadata, agentState, namespace)
          /\ UNCHANGED outsideStore
    \/ \E id \in SessionIds, metadata \in Values, expectedVersion \in 1..MaxVersion,
          namespace \in Namespaces :
          /\ UpdateSessionMetadata(id, metadata, expectedVersion, namespace, TRUE, FALSE)
          /\ UNCHANGED outsideStore
    \/ \E id \in SessionIds, agentState \in Values, expectedVersion \in 1..MaxVersion,
          namespace \in Namespaces :
          /\ UpdateSessionAgentState(id, agentState, expectedVersion, namespace, FALSE)
          /\ UNCHANGED outsideStore
    \/ \E id \in SessionIds, namespace \in Namespaces :
          DeleteSession(id, namespace) /\ UNCHANGED outsideStore

SpecTags == InitStore /\ [][NextTags]_vars

\* The message log: sessions are created and deleted, messages appended.
NextMessages ==
    \/ \E tag \in Tags :
          /\ SelectSessionByTag(sessions, tag, "n1") # {} \/ nextId <= MaxSessions
          /\ GetOrCreateSession(tag, "a", "null", "n1")
          /\ UNCHANGED outsideStore
    \/ \E sessionId \in SessionIds, content \in Contents, localId \in LocalIds :
          /\ nextMsgId <= MaxMessages
          /\ AddMessage(sessionId, content, localId)
          /\ UNCHANGED outsideStore
    \/ \E id \in SessionIds : DeleteSession(id, "n1") /\ UNCHANGED outsideStore

SpecMessages == InitStore /\ [][NextMessages]_vars

\* ------------------------------------------------------- versioned updates
UpdateOps == {"updateSessionMetadata", "updateSessionAgentState",
              "updateMachineMetadata", "updateMachineDaemonState"}

IsSessionOp(op) == op \in {"updateSessionMetadata", "updateSessionAgentState"}

VersionColumn(op) ==
    CASE op = "updateSessionMetadata" -> "metadata_version"
      [] op = "updateSessionAgentState" -> "agent_state_version"
      [] op = "updateMachineMetadata" -> "metadata_version"
      [] op = "updateMachineDaemonState" -> "daemon_state_version"

ValueColumn(op) ==
    CASE op = "updateSessionMetadata" -> "metadata"
      [] op = "updateSessionAgentState" -> "agent_state"
      [] op = "updateMachineMetadata" -> "metadata"
      [] op = "updateMachineDaemonState" -> "daemon_state"

\* the table an update addresses
TableOf(op, s, m) == IF IsSessionOp(op) THEN s ELSE m

\* the call addresses an existing row: its id in the namespace given
Addresses(rows, a) == a.id \in DOMAIN rows /\ rows[a.id].namespace = a.namespace

\* An update that reaches the row it addresses with the stored version succeeds:
\* it returns version + 1 and the submitted value and stores exactly that.
C1_SuccessStep ==
    LET op == ret'.op
        a == ret'.args
        before == TableOf(op, sessions, machines)
        after == TableOf(op, sessions', machines')
        vcol == VersionColumn(op)
    IN  (op \in UpdateOps /\ ~a.fault /\ Addresses(before, a)
            /\ before[a.id][vcol] = a.expectedVersion)
        => /\ ret'.out = [result |-> "success", version |-> a.expectedVersion + 1,
                          value |-> a.value]
           /\ after[a.id][vcol] = before[a.id][vcol] + 1
           /\ safeJsonParse(after[a.id][ValueColumn(op)]) = a.value

\* A stored version changes only in a successful update of that field group of
\* that row, and then by exactly 1.
C1_OnlySuccessWrites ==
    /\ \A i \in DOMAIN sessions \cap DOMAIN sessions' :
         /\ sessions'[i].metadata_version # sessions[i].metadata_version
              => /\ ret'.op = "updateSessionMetadata" /\ ret'.out.result = "success"
                 /\ ret'.args.id = i
                 /\ sessions'[i].metadata_version = sessions[i].metadata_version + 1
         /\ sessions'[i].agent_state_version # sessions[i].agent_state_version
              => /\ ret'.op = "updateSessionAgentState" /\ ret'.out.result = "success"
                 /\ ret'.args.id = i
                 /\ sessions'[i].agent_state_version = sessions[i].agent_state_version + 1
    /\ \A i \in DOMAIN machines \cap DOMAIN machines' :
         /\ machines'[i].metadata_version # machines[i].metadata_version
              => /\ ret'.op = "updateMachineMetadata" /\ ret'.out.result = "success"
                 /\ ret'.args.id = i
                 /\ machines'[i].metadata_version = machines[i].metadata_version + 1
         /\ machines'[i].daemon_state_version # machines[i].daemon_state_version
              => /\ ret'.op = "updateMachineDaemonState" /\ ret'.out.result = "success"
                 /\ ret'.args.id = i
                 /\ machines'[i].daemon_state_version = machines[i].daemon_state_version + 1

\* A row enters a table through getOrCreate, with both versions 1.
C1_CreatedAtOne ==
    /\ \A i \in DOMAIN sessions' \ DOMAIN sessions :
         /\ ret'.op = "getOrCreateSession" /\ ret'.out.id = i
         /\ ret'.out.metadataVersion = 1 /\ ret'.out.agentStateVersion = 1
         /\ sessions'[i].metadata_version = 1 /\ sessions'[i].agent_state_version = 1
    /\ \A i \in DOMAIN machines' \ DOMAIN machines :
         /\ ret'.op = "getOrCreateMachine" /\ ret'.out.id = i
         /\ ret'.out.metadataVersion = 1 /\ ret'.out.daemonStateVersion = 1
         /\ machines'[i].metadata_version = 1 /\ machines'[i].daemon_state_version = 1

\* seq counts the successful writes of a row: after k of them the two versions
\* of the row add up to 2 + k.
C1_VersionsCountWrites ==
    /\ \A i \in DOMAIN sessions :
         sessions[i].metadata_version + sessions[i].agent_state_version = 2 + sessions[i].seq
    /\ \A i \in DOMAIN machines :
         machines[i].metadata_version + machines[i].daemon_state_version = 2 + machines[i].seq

\* C1: for each of the four versioned field groups the version is 1 when
\* getOrCreate creates the row; every update that reaches its row with the stored
\* version returns success with version = expectedVersion + 1 and the submitted
\* value and raises the stored version by exactly 1; versions change in no other
\* way, so after k successful writes of a row its versions add up to 2 + k.
C1_VersionPlusOne ==
    /\ [][C1_SuccessStep /\ C1_OnlySuccessWrites /\ C1_CreatedAtOne]_vars
    /\ []C1_VersionsCountWrites

C1_Witness ==
    /\ ret.op = "updateMachineDaemonState"
    /\ ret.out.result = "success"
    /\ ret.out.version = MaxVersion
    /\ machines[ret.args.id].daemon_state_version = MaxVersion
    /\ machines[ret.args.id].metadata_version = 2

\* C3: an update that reaches an existing row with an expectedVersion other than
\* the stored version returns version-mismatch with the stored version and the
\* stored value, and leaves every row (value, version, seq, updated_at) as it was.
C3_MismatchStep ==
    LET op == ret'.op
        a == ret'.args
        before == TableOf(op, sessions, machines)
        vcol == VersionColumn(op)
    IN  (op \in UpdateOps /\ ~a.fault /\ Addresses(before, a)
            /\ before[a.id][vcol] # a.expectedVersion)
        => /\ ret'.out = [result |-> "version-mismatch",
                          version |-> before[a.id][vcol],
                          value |-> safeJsonParse(before[a.id][ValueColumn(op)])]
           /\ sessions' = sessions
           /\ machines' = machines

C3_MismatchKeepsRow == [][C3_MismatchStep]_vars

C3_Witness ==
    /\ ret.op = "updateSessionAgentState"
    /\ ret.out.result = "version-mismatch"
    /\ ret.out.value # ret.args.value
    /\ ret.out.version = 2
    /\ sessions[ret.args.id].updated_at < now

\* C4: an update returns error exactly when persistence throws or no row with
\* the id exists in the namespace given; the result then carries no version and
\* no value and no row changes.  version-mismatch is returned only for a row that
\* exists in that namespace with another version.  An update given a namespace
\* other than the row's never changes the row.
C4_ErrorStep ==
    LET op == ret'.op
        a == ret'.args
        before == TableOf(op, sessions, machines)
        vcol == VersionColumn(op)
    IN  op \in UpdateOps
        => /\ (a.fault \/ ~Addresses(before, a))
               => /\ ret'.out = [result |-> "error"]
                  /\ sessions' = sessions
                  /\ machines' = machines
           /\ ret'.out.result = "error" => (a.fault \/ ~Addresses(before, a))
           /\ ret'.out.result = "version-mismatch"
               => (Addresses(before, a) /\ before[a.id][vcol] # a.expectedVersion)

C4_ErrorIsNotMismatch == [][C4_ErrorStep]_vars

C4_Witness ==
    /\ ret.op = "updateSessionAgentState"
    /\ ret.out = [result |-> "error"]
    /\ ~ret.args.fault
    /\ ret.args.id \in DOMAIN sessions
    /\ sessions[ret.args.id].namespace # ret.args.namespace
    /\ sessions[ret.args.id].agent_state_version = ret.args.expectedVersion

\* ----------------------------------------------------------- get-or-create
\* C9: getOrCreateSession for a tag and namespace that already have a row
\* returns that row (same id, stored metadata, agentState and versions) and
\* changes no row; no two rows ever share a tag and namespace.
C9_ExistingStep ==
    ret'.op = "getOrCreateSession"
    => LET a == ret'.args
           existing == {i \in DOMAIN sessions :
                           sessions[i].tag = a.tag /\ sessions[i].namespace = a.namespace}
       IN  /\ ret'.out.tag = a.tag /\ ret'.out.namespace = a.namespace
           /\ existing # {}
               => /\ ~ret'.created
                  /\ sessions' = sessions
                  /\ ret'.out.id \in existing
                  /\ ret'.out.metadata = safeJsonParse(sessions[ret'.out.id].metadata)
                  /\ ret'.out.agentState = safeJsonParse(sessions[ret'.out.id].agent_state)
                  /\ ret'.out.metadataVersion = sessions[ret'.out.id].metadata_version
                  /\ ret'.out.agentStateVersion = sessions[ret'.out.id].agent_state_version

C9_OneRowPerTag ==
    \A i, j \in DOMAIN sessions :
        (sessions[i].tag = sessions[j].tag /\ sessions[i].namespace = sessions[j].namespace)
        => i = j

C9_GetOrCreateIdempotent == [][C9_ExistingStep]_vars /\ []C9_OneRowPerTag

C9_Witness ==
    /\ ret.op = "getOrCreateSession"
    /\ ~ret.created
    /\ ret.out.metadataVersion = 2
    /\ ret.out.metadata # ret.args.metadata
    /\ ret.out.agentState # ret.args.agentState
    /\ Cardinality(DOMAIN sessions) = 2


\* ------------------------------------------------------------ message log
MessagesOf(rows, sessionId) == {m \in rows : m.session_id = sessionId}

\* C5: addMessage called again with a localId already stored for that session
\* returns the originally stored message (same id, seq, content), inserts no row
\* and consumes no seq, for every supplied localId value (the empty string
\* included).
C5_ResubmitStep ==
    (/\ ret'.op = "addMessage"
     /\ ret'.args.localId # NULL
     /\ SelectByLocalId(messages, ret'.args.sessionId, ret'.args.localId) # {})
    => /\ messages' = messages
       /\ nextMsgId' = nextMsgId
       /\ \E m \in SelectByLocalId(messages, ret'.args.sessionId, ret'.args.localId) :
              ret'.out = toStoredMessage(m)

C5_ResubmitReturnsOriginal == [][C5_ResubmitStep]_vars

\* C6: a call that stores a message gives it the number of messages the session
\* already holds plus one, and leaves the other sessions' messages alone.
C6_AppendStep ==
    (ret'.op = "addMessage" /\ messages' # messages)
    => LET s == ret'.args.sessionId
       IN  /\ \E m \in messages' \ messages :
                 /\ messages' = messages \cup {m}
                 /\ m.session_id = s
                 /\ m.seq = Cardinality(MessagesOf(messages, s)) + 1
                 /\ ret'.out = toStoredMessage(m)
           /\ \A o \in SessionIds \ {s} : MessagesOf(messages', o) = MessagesOf(messages, o)

\* C6: the seq values of each session's messages are exactly 1..n.
C6_SeqContiguous ==
    \A s \in SessionIds :
        {m.seq : m \in MessagesOf(messages, s)} = 1..Cardinality(MessagesOf(messages, s))

\* C6: after any sequence of addMessage calls, with and without localId and over
\* several sessions, each session's messages are numbered exactly 1..n: the first
\* gets 1, each new one max + 1, independently of the other sessions.
C6_SeqIsOneToN == [][C6_AppendStep]_vars /\ []C6_SeqContiguous

\* two sessions hold messages, one of them two with and without a localId, and
\* the last call appended to a session that is not the one numbered last
C6_Witness ==
    /\ \E s \in SessionIds :
          /\ Cardinality(MessagesOf(messages, s)) = 2
          /\ \E m, n \in MessagesOf(messages, s) : m.local_id = NULL /\ n.local_id # NULL
    /\ \E s \in SessionIds : Cardinality(MessagesOf(messages, s)) = 1
    /\ ret.op = "addMessage"
    /\ \E m \in messages : ret.out = toStoredMessage(m) /\ m.seq = 2 /\ m.id = MaxMessages


\* ------------------------------------------- two connections on one database
\* The database is opened in WAL mode with a busy timeout, every statement is its
\* own transaction: calls made through two connections interleave statement by
\* statement.  calls[c] is the call connection c is executing; seen is the stored
\* version when the call was issued (kept for the statements about races).
Min(a, b) == IF a <= b THEN a ELSE b

AllIdle == \A c \in Conns : calls[c] = Idle

\* the UPDATE statement of an updateX
SqlUpdate(op, rows, a, t) ==
    CASE op = "updateSessionMetadata" ->
            SqlUpdateSessionMetadata(rows, a.id, JSONstringify(a.value), a.expectedVersion,
                                     a.namespace, TRUE, t)
      [] op = "updateSessionAgentState" ->
            SqlUpdateSessionAgentState(rows, a.id, NullableJson(a.value), a.expectedVersion,
                                       a.namespace, t)
      [] op = "updateMachineMetadata" ->
            SqlUpdateMachineMetadata(rows, a.id, JSONstringify(a.value), a.expectedVersion,
                                     a.namespace, t)
      [] op = "updateMachineDaemonState" ->
            SqlUpdateMachineDaemonState(rows, a.id, NullableJson(a.value), a.expectedVersion,
                                        a.namespace, t)

\* a connection enters an updateX
IssueUpdate(c, op, id, value, expectedVersion, namespace) ==
    /\ calls[c].pc = "idle"
    /\ id \in DOMAIN TableOf(op, sessions, machines)
    /\ calls' = [calls EXCEPT ![c] =
                    [pc |-> "update", op |-> op,
                     args |-> [id |-> id, value |-> value,
                               expectedVersion |-> expectedVersion, namespace |-> namespace],
                     seen |-> TableOf(op, sessions, machines)[id][VersionColumn(op)]]]
    /\ UNCHANGED storeVars

\* it runs its UPDATE statement and reads result.changes
RunUpdate(c) ==
    LET k == calls[c]
        rows == TableOf(k.op, sessions, machines)
        after == SqlUpdate(k.op, rows, k.args, now)
    IN  /\ k.pc = "update"
        /\ \A i \in DOMAIN after : after[i][VersionColumn(k.op)] <= MaxVersion + 1
        /\ IF IsSessionOp(k.op)
           THEN sessions' = after /\ UNCHANGED machines
           ELSE machines' = after /\ UNCHANGED sessions
        /\ calls' = [calls EXCEPT ![c] =
                        [pc |-> "result", op |-> k.op, args |-> k.args, seen |-> k.seen,
                         changes |-> Changes(rows, k.args.id, k.args.namespace,
                                             VersionColumn(k.op), k.args.expectedVersion)]]
        /\ UNCHANGED <<messages, nextId, nextMsgId, now, ret>>

\* it returns: success when one row changed, else what its SELECT finds now
FinishUpdate(c) ==
    LET k == calls[c]
        out == UpdateOutcome(k.changes, TableOf(k.op, sessions, machines), k.args.id,
                             k.args.namespace, k.args.expectedVersion, k.args.value,
                             VersionColumn(k.op), ValueColumn(k.op))
    IN  /\ k.pc = "result"
        /\ calls' = [calls EXCEPT ![c] =
                        [pc |-> "done", op |-> k.op, args |-> k.args, seen |-> k.seen,
                         out |-> out]]
        /\ ret' = [op |-> k.op, args |-> k.args, out |-> out]
        /\ UNCHANGED <<sessions, machines, messages, nextId, nextMsgId, now>>

\* Rows are created and updated by complete calls, then each connection makes
\* one updateX, the two interleaved statement by statement.
NextRace ==
    \/ /\ AllIdle
       /\ Inserted < MaxRows
       /\ GetOrCreateSession("t1", "a", "null", "n1")
       /\ UNCHANGED outsideStore
    \/ /\ AllIdle
       /\ Inserted < MaxRows
       /\ GetOrCreateMachine("m1", "a", "null", "n1")
       /\ UNCHANGED outsideStore
    \/ \E id \in DOMAIN sessions, expectedVersion \in 1..MaxVersion :
          /\ AllIdle
          /\ sessions[id].metadata_version = expectedVersion
          /\ UpdateSessionMetadata(id, "a", expectedVersion, "n1", TRUE, FALSE)
          /\ UNCHANGED outsideStore
    \/ \E id \in DOMAIN sessions, expectedVersion \in 1..MaxVersion :
          /\ AllIdle
          /\ sessions[id].agent_state_version = expectedVersion
          /\ UpdateSessionAgentState(id, "a", expectedVersion, "n1", FALSE)
          /\ UNCHANGED outsideStore
    \/ \E id \in DOMAIN machines, expectedVersion \in 1..MaxVersion :
          /\ AllIdle
          /\ machines[id].metadata_version = expectedVersion
          /\ UpdateMachineMetadata(id, "a", expectedVersion, "n1", FALSE)
          /\ UNCHANGED outsideStore
    \/ \E id \in DOMAIN machines, expectedVersion \in 1..MaxVersion :
          /\ AllIdle
          /\ machines[id].daemon_state_version = expectedVersion
          /\ UpdateMachineDaemonState(id, "a", expectedVersion, "n1", FALSE)
          /\ UNCHANGED outsideStore
    \/ \E c \in Conns, op \in UpdateOps, value \in Values, expectedVersion \in 1..MaxVersion :
          \E id \in DOMAIN TableOf(op, sessions, machines) :
              IssueUpdate(c, op, id, value, expectedVersion, "n1") /\ UNCHANGED outsideConns
    \/ \E c \in Conns : RunUpdate(c) /\ UNCHANGED outsideConns
    \/ \E c \in Conns : FinishUpdate(c) /\ UNCHANGED outsideConns

SpecRace == InitStore /\ [][NextRace]_vars

\* two finished calls on the same entity and field group, both carrying the
\* version that was stored when the first of them was issued
C2_Racing(a, b) ==
    /\ a.pc = "done" /\ b.pc = "done"
    /\ a.op = b.op
    /\ a.args.id = b.args.id
    /\ a.args.namespace = b.args.namespace
    /\ a.args.expectedVersion = b.args.expectedVersion
    /\ a.args.expectedVersion = Min(a.seen, b.seen)

\* C2: two updateX calls for the same entity and field group issued with the same
\* expectedVersion equal to the stored version: in every order or interleaving
\* exactly one returns success and the other version-mismatch with the version
\* and value the winner wrote.
C2_ExactlyOneWins ==
    \A c, d \in Conns :
        (c # d /\ C2_Racing(calls[c], calls[d]))
        => \E w \in {c, d} :
             LET l == CHOOSE x \in {c, d} : x # w
                 a == calls[w].args
                 row == TableOf(calls[w].op, sessions, machines)[a.id]
             IN  /\ calls[w].out = [result |-> "success", version |-> a.expectedVersion + 1,
                                    value |-> a.value]
                 /\ calls[l].out = [result |-> "version-mismatch",
                                    version |-> a.expectedVersion + 1, value |-> a.value]
                 /\ row[VersionColumn(calls[w].op)] = a.expectedVersion + 1
                 /\ safeJsonParse(row[ValueColumn(calls[w].op)]) = a.value

\* both calls were issued before either UPDATE ran, on a row already updated
\* once, with different values; both have returned
C2_Witness ==
    /\ C2_Racing(calls["c1"], calls["c2"])
    /\ calls["c1"].seen = calls["c2"].seen
    /\ calls["c1"].args.expectedVersion = MaxVersion
    /\ calls["c1"].args.value # calls["c2"].args.value
    /\ calls["c2"].out.result = "success"

\* ---------------------------------------- addMessage, statement by statement
\* a connection enters addMessage
IssueAdd(c, sessionId, content, localId) ==
    /\ calls[c].pc = "idle"
    /\ calls' = [calls EXCEPT ![c] =
                    [pc |-> IF Truthy(localId) THEN "dedupe" ELSE "readseq",
                     op |-> "addMessage",
                     args |-> [sessionId |-> sessionId, content |-> content,
                               localId |-> localId]]]
    /\ UNCHANGED storeVars

\* SELECT ... WHERE session_id = ? AND local_id = ?: return the row if there is one
Dedupe(c) ==
    LET k == calls[c]
        existing == SelectByLocalId(messages, k.args.sessionId, k.args.localId)
    IN  /\ k.pc = "dedupe"
        /\ IF existing # {}
           THEN \E m \in existing :
                  /\ calls' = [calls EXCEPT ![c] = [pc |-> "done", op |-> k.op, args |-> k.args,
                                                    out |-> toStoredMessage(m)]]
                  /\ ret' = [op |-> k.op, args |-> k.args, out |-> toStoredMessage(m)]
           ELSE /\ calls' = [calls EXCEPT ![c] = [pc |-> "readseq", op |-> k.op,
                                                  args |-> k.args]]
                /\ UNCHANGED ret
        /\ UNCHANGED <<sessions, machines, messages, nextId, nextMsgId, now>>

\* SELECT COALESCE(MAX(seq), 0) + 1
ReadSeq(c) ==
    LET k == calls[c]
    IN  /\ k.pc = "readseq"
        /\ calls' = [calls EXCEPT ![c] = [pc |-> "insert", op |-> k.op, args |-> k.args,
                                          msgSeq |-> NextSeq(messages, k.args.sessionId)]]
        /\ UNCHANGED storeVars

\* INSERT INTO messages with the seq read before, then the row is read back by
\* its id and returned
Insert(c) ==
    LET k == calls[c]
        row == [id |-> nextMsgId, session_id |-> k.args.sessionId,
                content |-> JSONstringify(k.args.content), created_at |-> now,
                seq |-> k.msgSeq, local_id |-> k.args.localId]
        ok == InsertAllowed(messages, sessions, row)
        out == IF ok THEN toStoredMessage(row) ELSE SqliteConstraint
    IN  /\ k.pc = "insert"
        /\ messages' = IF ok THEN messages \cup {row} ELSE messages
        /\ nextMsgId' = IF ok THEN nextMsgId + 1 ELSE nextMsgId
        /\ calls' = [calls EXCEPT ![c] = [pc |-> "done", op |-> k.op, args |-> k.args,
                                          out |-> out]]
        /\ ret' = [op |-> k.op, args |-> k.args, out |-> out]
        /\ UNCHANGED <<sessions, machines, nextId, now>>

\* Sessions are created and first messages appended by complete calls; then each
\* connection makes one addMessage, the two interleaved statement by statement.
NextAddRace ==
    \/ \E tag \in Tags :
          /\ AllIdle
          /\ nextId <= MaxSessions
          /\ SelectSessionByTag(sessions, tag, "n1") = {}
          /\ GetOrCreateSession(tag, "a", "null", "n1")
          /\ UNCHANGED outsideStore
    \/ \E sessionId \in DOMAIN sessions, localId \in LocalIds :
          /\ AllIdle
          /\ nextMsgId < MaxMessages
          /\ AddMessage(sessionId, "hi", localId)
          /\ UNCHANGED outsideStore
    \/ \E c \in Conns, sessionId \in DOMAIN sessions, content \in Contents, localId \in LocalIds :
          IssueAdd(c, sessionId, content, localId) /\ UNCHANGED outsideConns
    \/ \E c \in Conns : Dedupe(c) /\ UNCHANGED outsideConns
    \/ \E c \in Conns : ReadSeq(c) /\ UNCHANGED outsideConns
    \/ \E c \in Conns : Insert(c) /\ UNCHANGED outsideConns

SpecAddRace == InitStore /\ [][NextAddRace]_vars

\* C7: addMessage behaves as one point-in-time read-modify-write transaction:
\* under any interleaving of two addMessage calls for the same session, the read
\* of MAX(seq) and the insert of each possibly separated by steps of the other,
\* no two stored messages of that session have the same seq.
C7_NoDuplicateSeq ==
    \A m, n \in messages : (m.session_id = n.session_id /\ m.seq = n.seq) => m = n

\* ------------------------------------------------------- reading the log
\* the largest page getMessages returns
MaxPageLimit == 200

\* sizes of the logs read: a few messages, and around the largest page
LogSmall == 3
LogSizes == (0..LogSmall) \cup ((MaxPageLimit - 1)..(MaxPageLimit + 2))

\* pages a client fetches in one backward walk
MaxPages == 4

\* limit and beforeSeq arguments: <<n>> is the number n, <<>> a value that is not
\* a finite number (NaN, Infinity; for beforeSeq also undefined and null)
Limits == {<<>>} \cup {<<n>> : n \in {-1, 0, 1, 2, MaxPageLimit - 1, MaxPageLimit, MaxPageLimit + 1}}
BeforeSeqs == {<<>>} \cup {<<n>> : n \in {0, 1, 2, LogSmall, MaxPageLimit, MaxPageLimit + 1, MaxPageLimit + 3}}

\* Number.isFinite(limit) ? Math.max(1, Math.min(200, limit)) : 200
safeLimit(limit) ==
    IF limit = NULL
    THEN MaxPageLimit
    ELSE LET capped == IF limit[1] <= MaxPageLimit THEN limit[1] ELSE MaxPageLimit
         IN  IF capped >= 1 THEN capped ELSE 1

\* the numbers of S, all within lo..hi, smallest first
RECURSIVE Ascending(_, _, _)
Ascending(S, lo, hi) ==
    IF S = {}
    THEN <<>>
    ELSE IF lo = hi
    THEN <<lo>>
    ELSE LET mid == (lo + hi) \div 2
         IN  Ascending({x \in S : x <= mid}, lo, mid)
             \o Ascending({x \in S : x > mid}, mid + 1, hi)

\* the numbers of S, largest first (ORDER BY ... DESC)
Descending(S) ==
    LET asc == IF S = {} THEN <<>>
               ELSE Ascending(S, CHOOSE x \in S : \A y \in S : x <= y, Max(S))
    IN  [i \in 1..Len(asc) |-> asc[Len(asc) + 1 - i]]

getMessagesInclusive(rows, sessionId, limit, beforeSeq) ==
    LET eligible == {m \in rows : /\ m.session_id = sessionId
                                  /\ beforeSeq # NULL => m.seq <= beforeSeq[1]}
        seqs == {m.seq : m \in eligible}
        top == {s \in seqs : Cardinality({x \in seqs : x > s}) < safeLimit(limit)}
        desc == Descending(top)
        n == Len(desc)
    IN  [i \in 1..n |-> toStoredMessage(CHOOSE m \in eligible : m.seq = desc[n + 1 - i])]

\* SELECT * FROM messages WHERE session_id = ? [AND seq < ?] ORDER BY seq DESC LIMIT ?
\* then rows.reverse().map(toStoredMessage).  top holds the seq values that have
\* fewer than LIMIT eligible rows ordered before them; the seq values of a
\* session are distinct here.
getMessages(rows, sessionId, limit, beforeSeq) ==
    LET eligible == {m \in rows : /\ m.session_id = sessionId
                                  /\ beforeSeq # NULL => m.seq < beforeSeq[1]}
        seqs == {m.seq : m \in eligible}
        top == {s \in seqs : Cardinality({x \in seqs : x > s}) < safeLimit(limit)}
        desc == Descending(top)
        n == Len(desc)
    IN  [i \in 1..n |-> toStoredMessage(CHOOSE m \in eligible : m.seq = desc[n + 1 - i])]

DecryptedMessage(m) ==
    [id |-> m.id, seq |-> m.seq, localId |-> m.localId, content |-> m.content,
     createdAt |-> m.createdAt]

getMessagesPage(rows, sessionId, limit, beforeSeq) ==
    LET stored == getMessages(rows, sessionId, limit, beforeSeq)
        msgs == [i \in 1..Len(stored) |-> DecryptedMessage(stored[i])]
        seqs == {msgs[i].seq : i \in 1..Len(msgs)}
        oldestSeq == IF seqs = {} THEN NULL ELSE <<CHOOSE x \in seqs : \A y \in seqs : x <= y>>
        hasMore == /\ oldestSeq # NULL
                   /\ Len(getMessages(rows, sessionId, <<1>>, oldestSeq)) > 0
    IN  [messages |-> msgs,
         page |-> [limit |-> limit, beforeSeq |-> beforeSeq, nextBeforeSeq |-> oldestSeq,
                   hasMore |-> hasMore]]

GetMessages(sessionId, limit, beforeSeq) ==
    /\ ret' = [op |-> "getMessages",
               args |-> [sessionId |-> sessionId, limit |-> limit, beforeSeq |-> beforeSeq],
               out |-> getMessages(messages, sessionId, limit, beforeSeq)]
    /\ UNCHANGED <<sessions, machines, messages, nextId, nextMsgId, now>>

\* a client asks for the newest page of a session
FirstPage(c, sessionId, limit) ==
    LET r == getMessagesPage(messages, sessionId, limit, NULL)
        args == [sessionId |-> sessionId, limit |-> limit]
    IN  /\ AllIdle
        /\ ret.op = "init"
        /\ calls' = [calls EXCEPT ![c] =
                        [pc |-> IF r.page.hasMore THEN "paging" ELSE "done",
                         op |-> "getMessagesPage", args |-> args, page |-> r.page,
                         got |-> r.messages, pages |-> 1]]
        /\ ret' = [op |-> "getMessagesPage", args |-> args, out |-> r]
        /\ UNCHANGED <<sessions, machines, messages, nextId, nextMsgId, now>>

\* while hasMore, it asks for the page before nextBeforeSeq
OlderPage(c) ==
    LET k == calls[c]
        r == getMessagesPage(messages, k.args.sessionId, k.args.limit, k.page.nextBeforeSeq)
    IN  /\ k.pc = "paging"
        /\ k.pages < MaxPages
        /\ calls' = [calls EXCEPT ![c] =
                        [pc |-> IF r.page.hasMore THEN "paging" ELSE "done",
                         op |-> k.op, args |-> k.args, page |-> r.page,
                         got |-> r.messages \o k.got, pages |-> k.pages + 1]]
        /\ ret' = [op |-> k.op, args |-> k.args, out |-> r]
        /\ UNCHANGED <<sessions, machines, messages, nextId, nextMsgId, now>>

\* n messages of a session as addMessage numbers them
LogRows(sessionId, firstId, n) ==
    {[id |-> firstId + i - 1, session_id |-> sessionId, content |-> JSONstringify("hi"),
      created_at |-> 1, seq |-> i, local_id |-> NULL] : i \in 1..n}

\* two sessions with their logs written; each behaviour then makes one read or
\* one backward walk
InitPage ==
    \E n \in LogSizes, o \in {0, 2} :
        /\ sessions = (1 :> NewSessionRow(1, "t1", "n1", "a", "null", 1))
                      @@ (2 :> NewSessionRow(2, "t2", "n1", "a", "null", 1))
        /\ machines = EmptyTable
        /\ messages = LogRows(1, 1, n) \cup LogRows(2, n + 1, o)
        /\ nextId = 3
        /\ nextMsgId = n + o + 1
        /\ now = 1
        /\ ret = [op |-> "init"]
        /\ calls = [c \in Conns |-> Idle]
    /\ InitLock
    /\ db = CreatedDb
    /\ InitCli

NextPage ==
    \/ \E sessionId \in SessionIds, limit \in Limits, beforeSeq \in BeforeSeqs :
          /\ AllIdle
          /\ ret.op = "init"
          /\ GetMessages(sessionId, limit, beforeSeq)
          /\ UNCHANGED outsideStore
    \/ \E c \in Conns, sessionId \in SessionIds, limit \in Limits : FirstPage(c, sessionId, limit) /\ UNCHANGED outsideConns
    \/ \E c \in Conns : OlderPage(c) /\ UNCHANGED outsideConns

SpecPage == InitPage /\ [][NextPage]_vars

\* min(max(limit, 1), 200)
C8_Clamp(limit) ==
    LET atLeastOne == IF limit >= 1 THEN limit ELSE 1
    IN  Min(atLeastOne, MaxPageLimit)

\* A read returns at most the clamped limit of the session's messages, ascending
\* by seq, all below beforeSeq, and no eligible message left out is newer than a
\* returned one.
C8_PageOfLargestBelow ==
    (ret.op = "getMessages" /\ ret.args.limit # NULL)
    => LET a == ret.args
           out == ret.out
           eligible == {m \in MessagesOf(messages, a.sessionId) :
                           a.beforeSeq # NULL => m.seq < a.beforeSeq[1]}
           returned == {out[i].id : i \in 1..Len(out)}
       IN  /\ Len(out) = Min(C8_Clamp(a.limit[1]), Cardinality(eligible))
           /\ \A i \in 1..(Len(out) - 1) : out[i].seq < out[i + 1].seq
           /\ \A i \in 1..Len(out) : \E m \in eligible : out[i] = toStoredMessage(m)
           /\ \A m \in eligible :
                 m.id \notin returned => \A i \in 1..Len(out) : m.seq < out[i].seq

\* A backward walk has collected the newest messages of the session, each once
\* and in order; every page of it held a message; it ends exactly when all the
\* session's messages are collected.
C8_WalkCollectsEachOnce ==
    \A c \in Conns :
        (calls[c].pc # "idle" /\ calls[c].op = "getMessagesPage")
        => LET k == calls[c]
               n == Cardinality(MessagesOf(messages, k.args.sessionId))
           IN  /\ \A i \in 1..Len(k.got) :
                     /\ k.got[i].seq = n - Len(k.got) + i
                     /\ \E m \in MessagesOf(messages, k.args.sessionId) :
                           k.got[i] = DecryptedMessage(toStoredMessage(m))
               /\ k.pages <= Len(k.got) \/ n = 0
               /\ k.page.hasMore <=> Len(k.got) < n
               /\ k.pc = "done" <=> Len(k.got) = n

\* C8: getMessages(sessionId, limit, beforeSeq = X) returns at most
\* min(max(limit, 1), 200) messages of the session in ascending seq order, all
\* with seq < X, namely those with the largest seq below X; paging backward by
\* nextBeforeSeq while hasMore returns every message exactly once and stops.
C8_PagingReconstructsLog == C8_PageOfLargestBelow /\ C8_WalkCollectsEachOnce

\* a walk over a log larger than the largest page, asked with a limit above it,
\* has ended after two pages with every message collected
C8_Witness ==
    \E c \in Conns :
        /\ calls[c].pc = "done"
        /\ calls[c].op = "getMessagesPage"
        /\ calls[c].args.limit # NULL
        /\ calls[c].args.limit[1] > MaxPageLimit
        /\ calls[c].pages = 2
        /\ Len(calls[c].got) = MaxPageLimit + 2

\* ------------------------------------------------------ the daemon lock
\* lockFile is <<>> when the path does not exist, else <<[ino, content]>>: the
\* inode at the path and what is written in it (<<>> empty, <<pid>> a PID).
\* A handle names the inode it was opened on.

\* the maxAttempts arguments tried, and the lock files ever created
MaxAttempts == 2
MaxFiles == 3

Goto(p, pc) == [procs EXCEPT ![p].pc = pc]

\* acquireDaemonLock(maxAttempts = 5, delayIncrementMs = 200)
DefaultDelayIncrementMs == 200

\* for (...; attempt <= maxAttempts; ...): the loop body runs, or the loop is
\* left and null returned
LoopOrReturnNull(p, attempt) ==
    IF attempt <= procs[p].maxAttempts
    THEN [procs EXCEPT ![p].pc = "open", ![p].attempt = attempt]
    ELSE [procs EXCEPT ![p].pc = "idle", ![p].result = "null"]

\* a process calls acquireDaemonLock(maxAttempts, delayIncrementMs)
StartAcquire(p, maxAttempts, delayIncrementMs) ==
    /\ procs[p].alive /\ procs[p].pc = "idle"
    /\ procs' = [procs EXCEPT ![p] = [IdleProc EXCEPT !.pc = "open", !.attempt = 1,
                                      !.maxAttempts = maxAttempts,
                                      !.delayIncrementMs = delayIncrementMs]]
    /\ UNCHANGED <<lockFile, nextIno>>
    /\ UNCHANGED outsideLock

\* open(daemonLockFile, O_CREAT | O_EXCL | O_WRONLY): creates the file, or EEXIST
OpenExcl(p) ==
    /\ procs[p].alive /\ procs[p].pc = "open"
    /\ IF lockFile = NULL
       THEN /\ nextIno <= MaxFiles
            /\ lockFile' = <<[ino |-> nextIno, content |-> NULL]>>
            /\ nextIno' = nextIno + 1
            /\ procs' = [procs EXCEPT ![p].pc = "write", ![p].handle = <<nextIno>>,
                                      ![p].opens = @ + 1]
       ELSE /\ procs' = [procs EXCEPT ![p].pc = "read", ![p].opens = @ + 1]
            /\ UNCHANGED <<lockFile, nextIno>>
    /\ UNCHANGED outsideLock

\* fileHandle.writeFile(String(process.pid)); return fileHandle
WritePid(p) ==
    /\ procs[p].alive /\ procs[p].pc = "write"
    /\ lockFile' = IF lockFile # NULL /\ <<lockFile[1].ino>> = procs[p].handle
                   THEN <<[ino |-> lockFile[1].ino, content |-> <<p>>]>>
                   ELSE lockFile
    /\ procs' = Goto(p, "holding")
    /\ UNCHANGED nextIno
    /\ UNCHANGED outsideLock

\* readFileSync(daemonLockFile).trim(): a missing file throws into the outer
\* catch, an empty one skips the probe
ReadPid(p) ==
    /\ procs[p].alive /\ procs[p].pc = "read"
    /\ procs' = IF lockFile = NULL \/ lockFile[1].content = NULL
                THEN Goto(p, "backoff")
                ELSE [procs EXCEPT ![p].pc = "probe", ![p].lockPid = lockFile[1].content]
    /\ UNCHANGED <<lockFile, nextIno>>
    /\ UNCHANGED outsideLock

\* process.kill(Number(lockPid), 0): throws when the process does not exist
Probe(p) ==
    /\ procs[p].alive /\ procs[p].pc = "probe"
    /\ procs' = Goto(p, IF procs[procs[p].lockPid[1]].alive THEN "backoff" ELSE "unlink")
    /\ UNCHANGED <<lockFile, nextIno>>
    /\ UNCHANGED outsideLock

\* unlinkSync(daemonLockFile); continue.  A missing file throws into the outer
\* catch; continue starts the next attempt, the loop ends after maxAttempts.
UnlinkStale(p) ==
    /\ procs[p].alive /\ procs[p].pc = "unlink"
    /\ IF lockFile = NULL
       THEN procs' = Goto(p, "backoff") /\ UNCHANGED lockFile
       ELSE /\ lockFile' = NULL
            /\ procs' = LoopOrReturnNull(p, procs[p].attempt + 1)
    /\ UNCHANGED nextIno
    /\ UNCHANGED outsideLock

BackoffFlatDelay(p) ==
    /\ procs[p].alive /\ procs[p].pc = "backoff"
    /\ procs' = IF procs[p].attempt = procs[p].maxAttempts
                THEN [procs EXCEPT ![p].pc = "idle", ![p].result = "null"]
                ELSE [procs EXCEPT ![p].pc = "open", ![p].attempt = @ + 1,
                                   ![p].delays = Append(@, procs[p].delayIncrementMs)]
    /\ UNCHANGED <<lockFile, nextIno>>
    /\ UNCHANGED outsideLock

\* if (attempt === maxAttempts) return null; else wait attempt * delayIncrementMs
\* and try again
Backoff(p) ==
    /\ procs[p].alive /\ procs[p].pc = "backoff"
    /\ procs' = IF procs[p].attempt = procs[p].maxAttempts
                THEN [procs EXCEPT ![p].pc = "idle", ![p].result = "null"]
                ELSE [procs EXCEPT ![p].pc = "open", ![p].attempt = @ + 1,
                                   ![p].delays = Append(@, procs[p].attempt
                                                           * procs[p].delayIncrementMs)]
    /\ UNCHANGED <<lockFile, nextIno>>
    /\ UNCHANGED outsideLock

\* releaseDaemonLock: await lockHandle.close()
ReleaseClose(p) ==
    /\ procs[p].alive /\ procs[p].pc = "holding"
    /\ procs' = [procs EXCEPT ![p].pc = "released", ![p].handle = NULL]
    /\ UNCHANGED <<lockFile, nextIno>>
    /\ UNCHANGED outsideLock

\* releaseDaemonLock: if (existsSync(daemonLockFile)) unlinkSync(daemonLockFile)
ReleaseUnlink(p) ==
    /\ procs[p].alive /\ procs[p].pc = "released"
    /\ lockFile' = NULL
    /\ procs' = [procs EXCEPT ![p] = IdleProc]
    /\ UNCHANGED nextIno
    /\ UNCHANGED outsideLock

\* clearDaemonState, by a process that is not inside another call: the lock file
\* is unlinked if it exists
ClearDaemonState(p) ==
    /\ procs[p].alive /\ procs[p].pc \in {"idle", "holding"}
    /\ lockFile # NULL
    /\ lockFile' = NULL
    /\ UNCHANGED <<procs, nextIno>>
    /\ UNCHANGED outsideLock

\* a process dies; its handles close, the file stays
Crash(p) ==
    /\ procs[p].alive
    /\ procs' = [procs EXCEPT ![p] = [IdleProc EXCEPT !.alive = FALSE, !.pc = "dead"]]
    /\ UNCHANGED <<lockFile, nextIno>>
    /\ UNCHANGED outsideLock

NextLock ==
    \/ \E p \in Pids, maxAttempts \in 1..MaxAttempts :
          StartAcquire(p, maxAttempts, DefaultDelayIncrementMs)
    \/ \E p \in Pids : OpenExcl(p)
    \/ \E p \in Pids : WritePid(p)
    \/ \E p \in Pids : ReadPid(p)
    \/ \E p \in Pids : Probe(p)
    \/ \E p \in Pids : UnlinkStale(p)
    \/ \E p \in Pids : Backoff(p)
    \/ \E p \in Pids : ReleaseClose(p)
    \/ \E p \in Pids : ReleaseUnlink(p)
    \/ \E p \in Pids : ClearDaemonState(p)
    \/ \E p \in Pids : Crash(p)

SpecLock == InitStore /\ [][NextLock]_vars

\* the live processes holding a handle acquireDaemonLock returned to them
Holders == {p \in Pids : procs[p].alive /\ procs[p].pc = "holding"}

\* C10: at every moment at most one live process holds a daemon lock handle that
\* it obtained from acquireDaemonLock and has not released, for every
\* interleaving of acquireDaemonLock, releaseDaemonLock and clearDaemonState.
C10_AtMostOneHolder == Cardinality(Holders) <= 1

\* ----------------------------------------- the daemon lock, one call at a time
\* maxAttempts and delayIncrementMs arguments tried
SoloAttempts == 3
DelayIncrements == {100, DefaultDelayIncrementMs}

\* the process is inside acquireDaemonLock or releaseDaemonLock
InCall(p) == procs[p].pc \notin {"idle", "holding", "dead"}

\* the process is inside acquireDaemonLock
InAcquire(p) == procs[p].pc \in {"open", "write", "read", "probe", "unlink", "backoff"}

NoCall == \A p \in Pids : ~InCall(p)

\* Calls do not overlap: a process acquires, releases or dies only while no other
\* process is inside a call.
NextSolo ==
    \/ \E p \in Pids, maxAttempts \in 1..SoloAttempts, delayIncrementMs \in DelayIncrements :
          NoCall /\ StartAcquire(p, maxAttempts, delayIncrementMs)
    \/ \E p \in Pids : OpenExcl(p)
    \/ \E p \in Pids : WritePid(p)
    \/ \E p \in Pids : ReadPid(p)
    \/ \E p \in Pids : Probe(p)
    \/ \E p \in Pids : UnlinkStale(p)
    \/ \E p \in Pids : Backoff(p)
    \/ \E p \in Pids : NoCall /\ ReleaseClose(p)
    \/ \E p \in Pids : ReleaseUnlink(p)
    \/ \E p \in Pids : NoCall /\ Crash(p)

SpecSolo == InitStore /\ [][NextSolo]_vars

\* a live process holds the handle of the file at the lock path
LiveHeld ==
    /\ lockFile # NULL
    /\ \E q \in Holders : procs[q].handle = <<lockFile[1].ino>>

\* While a live process holds the lock file, a step of the call neither removes
\* the file nor lets the caller have a handle.
C11_HolderKeepsFile ==
    LiveHeld
    => /\ lockFile' = lockFile
       /\ \A p \in Pids : InAcquire(p) => procs'[p].pc \notin {"write", "holding"}

\* A call that ends while a live process holds the file returns null after
\* exactly maxAttempts opens, having waited attempt * delayIncrementMs after each
\* but the last.
C11_ReturnsNull ==
    \A p \in Pids :
        (LiveHeld /\ InAcquire(p) /\ ~InAcquire(p)')
        => /\ procs'[p].pc = "idle"
           /\ procs'[p].result = "null"
           /\ procs'[p].opens = procs[p].maxAttempts
           /\ procs'[p].delays = [i \in 1..(procs[p].maxAttempts - 1) |->
                                      i * procs[p].delayIncrementMs]
           /\ \A i \in 1..(Len(procs'[p].delays) - 1) :
                 procs'[p].delays[i] < procs'[p].delays[i + 1]

C12_StaleStep ==
    \A p \in Pids :
        (procs[p].pc = "unlink" /\ lockFile # NULL /\ procs'[p] # procs[p])
        => /\ lockFile' = NULL
           /\ procs'[p].pc = "open"
           /\ procs'[p].delays = <<>>

\* Without contention a handle is obtained without any wait: on the first open
\* when there is no file (as after a release), on the second after a stale one.
C12_NoWait ==
    \A p \in Pids :
        procs[p].pc = "holding"
        => /\ procs[p].delays = <<>>
           /\ procs[p].opens = IF procs[p].lockPid = NULL THEN 1 ELSE 2

\* C12: with a lock file recording a dead PID and no contention,
\* acquireDaemonLock(maxAttempts) with any maxAttempts >= 1 deletes the stale
\* file and returns a handle in that same call without a backoff delay; after
\* releaseDaemonLock the next acquireDaemonLock succeeds on its first attempt.
C12_ReclaimsStaleLock == [][C12_StaleStep]_vars /\ []C12_NoWait

\* ------------------------------------------------------- updateSettings
\* settingsLock is <<>> when settings.json.lock does not exist, else
\* <<[owner, mtime]>>: the process that created it and when.  The settings
\* document is the set of updaters applied to it; the updater of process p adds p.
MAX_LOCK_ATTEMPTS == 50
STALE_LOCK_TIMEOUT_MS == 10000

\* the clock advances in steps of TickMs, SettingsTicks times
TickMs == 6000
SettingsTicks == 2

\* lock attempts followed when several processes contend
SettingsWaits == 2

GotoU(p, pc) == [updaters EXCEPT ![p].pc = pc]

\* a process calls updateSettings(updater)
StartUpdate(p) ==
    /\ updaters[p].alive /\ updaters[p].pc = "idle"
    /\ updaters' = [updaters EXCEPT ![p] = [IdleUpdater EXCEPT !.pc = "open"]]
    /\ UNCHANGED <<settingsLock, settingsFile, settingsTmp, fsNow>>
    /\ UNCHANGED outsideSettings

\* while (attempts < MAX_LOCK_ATTEMPTS) open(lockFile, O_CREAT | O_EXCL | O_WRONLY);
\* after the loop: if (!fileHandle) throw new Error('Failed to acquire settings lock ...')
TryOpen(p) ==
    /\ updaters[p].alive /\ updaters[p].pc = "open"
    /\ IF updaters[p].attempts >= MAX_LOCK_ATTEMPTS
       THEN /\ updaters' = [updaters EXCEPT ![p].pc = "idle", ![p].result = "threw"]
            /\ UNCHANGED settingsLock
       ELSE IF settingsLock = NULL
       THEN /\ settingsLock' = <<[owner |-> p, mtime |-> fsNow]>>
            /\ updaters' = [updaters EXCEPT ![p].pc = "read", ![p].handle = <<p>>]
       ELSE /\ updaters' = [updaters EXCEPT ![p].pc = "wait", ![p].attempts = @ + 1]
            /\ UNCHANGED settingsLock
    /\ UNCHANGED <<settingsFile, settingsTmp, fsNow>>
    /\ UNCHANGED outsideSettings

\* after the wait: stat(lockFile); is Date.now() - stats.mtimeMs > STALE_LOCK_TIMEOUT_MS
StatLock(p) ==
    /\ updaters[p].alive /\ updaters[p].pc = "wait"
    /\ updaters' = GotoU(p, IF /\ settingsLock # NULL
                               /\ fsNow - settingsLock[1].mtime > STALE_LOCK_TIMEOUT_MS
                            THEN "unlinkStale" ELSE "open")
    /\ UNCHANGED <<settingsLock, settingsFile, settingsTmp, fsNow>>
    /\ UNCHANGED outsideSettings

\* await unlink(lockFile).catch(() => { })
UnlinkStaleLock(p) ==
    /\ updaters[p].alive /\ updaters[p].pc = "unlinkStale"
    /\ settingsLock' = NULL
    /\ updaters' = GotoU(p, "open")
    /\ UNCHANGED <<settingsFile, settingsTmp, fsNow>>
    /\ UNCHANGED outsideSettings

\* const current = await readSettings()
ReadSettings(p) ==
    /\ updaters[p].alive /\ updaters[p].pc = "read"
    /\ updaters' = [updaters EXCEPT ![p].pc = "write", ![p].current = settingsFile]
    /\ UNCHANGED <<settingsLock, settingsFile, settingsTmp, fsNow>>
    /\ UNCHANGED outsideSettings

\* const updated = await updater(current); await writeFile(tmpFile, ...)
WriteTmp(p) ==
    /\ updaters[p].alive /\ updaters[p].pc = "write"
    /\ settingsTmp' = <<updaters[p].current \cup {p}>>
    /\ updaters' = [updaters EXCEPT ![p].pc = "rename", ![p].called = @ + 1]
    /\ UNCHANGED <<settingsLock, settingsFile, fsNow>>
    /\ UNCHANGED outsideSettings

\* await rename(tmpFile, settingsFile); return updated.  A missing temporary
\* file makes rename throw.
RenameTmp(p) ==
    /\ updaters[p].alive /\ updaters[p].pc = "rename"
    /\ IF settingsTmp = NULL
       THEN /\ updaters' = [updaters EXCEPT ![p].pc = "close", ![p].result = "threw"]
            /\ UNCHANGED <<settingsFile, settingsTmp>>
       ELSE /\ settingsFile' = settingsTmp[1]
            /\ settingsTmp' = NULL
            /\ updaters' = [updaters EXCEPT ![p].pc = "close", ![p].result = "returned"]
    /\ UNCHANGED <<settingsLock, fsNow>>
    /\ UNCHANGED outsideSettings

\* finally: await fileHandle.close()
CloseLock(p) ==
    /\ updaters[p].alive /\ updaters[p].pc = "close"
    /\ updaters' = [updaters EXCEPT ![p].pc = "unlinkLock", ![p].handle = NULL]
    /\ UNCHANGED <<settingsLock, settingsFile, settingsTmp, fsNow>>
    /\ UNCHANGED outsideSettings

\* finally: await unlink(lockFile).catch(() => { })
UnlinkLock(p) ==
    /\ updaters[p].alive /\ updaters[p].pc = "unlinkLock"
    /\ settingsLock' = NULL
    /\ updaters' = GotoU(p, "idle")
    /\ UNCHANGED <<settingsFile, settingsTmp, fsNow>>
    /\ UNCHANGED outsideSettings

\* a process dies while it has the lock; the lock file stays
UpdaterCrash(p) ==
    /\ updaters[p].alive /\ updaters[p].handle # NULL
    /\ updaters' = [updaters EXCEPT ![p].alive = FALSE, ![p].pc = "dead"]
    /\ UNCHANGED <<settingsLock, settingsFile, settingsTmp, fsNow>>
    /\ UNCHANGED outsideSettings

\* time passes
FsTick ==
    /\ fsNow < SettingsTicks * TickMs
    /\ fsNow' = fsNow + TickMs
    /\ UNCHANGED <<settingsLock, settingsFile, settingsTmp, updaters>>
    /\ UNCHANGED outsideSettings

\* the processes waiting for the settings lock
Waiting == {p \in Updaters : updaters[p].alive /\ updaters[p].pc \in {"open", "wait", "unlinkStale"}}

\* The processes update the settings, once each; each is followed for
\* SettingsWaits failed lock attempts.
NextSettings ==
    \/ \E p \in Updaters : updaters[p].result = "none" /\ StartUpdate(p)
    \/ \E p \in Updaters : (settingsLock = NULL \/ updaters[p].attempts < SettingsWaits) /\ TryOpen(p)
    \/ \E p \in Updaters : StatLock(p)
    \/ \E p \in Updaters : UnlinkStaleLock(p)
    \/ \E p \in Updaters : ReadSettings(p)
    \/ \E p \in Updaters : WriteTmp(p)
    \/ \E p \in Updaters : RenameTmp(p)
    \/ \E p \in Updaters : CloseLock(p)
    \/ \E p \in Updaters : UnlinkLock(p)
    \/ \E p \in Updaters : UpdaterCrash(p)
    \/ FsTick

SpecSettings == InitStore /\ [][NextSettings]_vars

\* One process at a time waits for the lock, through all its attempts, while
\* another has it.
NextSettingsBusy ==
    \/ \E p \in Updaters : Waiting = {} /\ updaters[p].result = "none" /\ StartUpdate(p)
    \/ \E p \in Updaters : TryOpen(p)
    \/ \E p \in Updaters : StatLock(p)
    \/ \E p \in Updaters : UnlinkStaleLock(p)
    \/ \E p \in Updaters : ReadSettings(p)
    \/ \E p \in Updaters : WriteTmp(p)
    \/ \E p \in Updaters : RenameTmp(p)
    \/ \E p \in Updaters : CloseLock(p)
    \/ \E p \in Updaters : UnlinkLock(p)
    \/ \E p \in Updaters : UpdaterCrash(p)
    \/ FsTick

SpecSettingsBusy == InitStore /\ [][NextSettingsBusy]_vars

\* the running calls that have read the settings and not yet renamed the
\* temporary file
InCritical == {p \in Updaters : updaters[p].alive /\ updaters[p].pc \in {"write", "rename"}}

\* C13: concurrent updateSettings calls are serialized by the settings lock file:
\* at most one call is between reading the settings and renaming the temporary
\* file, and no update is lost: the document holds the updater of every call
\* that returned, whatever the interleaving, stale-lock clearing and finally
\* blocks included.
C13_Serialized ==
    /\ Cardinality(InCritical) <= 1
    /\ \A p \in Updaters : updaters[p].result = "returned" => p \in settingsFile

\* C14: when updateSettings cannot acquire the settings lock within its 50
\* attempts it reports a 'not acquired' sentinel instead of throwing, never calls
\* the updater, and leaves the settings document unchanged.
C14_GivesUpStep ==
    \A p \in Updaters :
        (/\ updaters[p].pc = "open"
         /\ updaters[p].attempts >= MAX_LOCK_ATTEMPTS
         /\ updaters'[p] # updaters[p])
        => /\ updaters'[p].pc = "idle"
           /\ updaters'[p].result = "not acquired"
           /\ updaters'[p].called = 0
           /\ settingsFile' = settingsFile

C14_NotAcquiredSentinel == [][C14_GivesUpStep]_vars

\* ------------------------------------------- SyncEngine: heartbeats and sweep
AliveWindowMs == 600000
sessionTimeoutMs == 30000
machineTimeoutMs == 45000
SweepPeriodMs == 5000
BroadcastIntervalMs == 10000

\* periods of the inactivity timer a behaviour runs through
EngineTicks == 3
MaxClock == StartClock + EngineTicks * SweepPeriodMs

\* payload.time: a finite number of ms, or NaN, Infinity, -Infinity
Finite(n) == [kind |-> "finite", ms |-> n]
NonFinite == {[kind |-> k, ms |-> 0] : k \in {"NaN", "Infinity", "-Infinity"}}
\* a heartbeat's time: just outside the window, at its edge, as old as the
\* entity's timeout, now, in the future
Offsets(timeoutMs) == {0 - (AliveWindowMs + 1), 0 - AliveWindowMs, 0 - timeoutMs, 0, 1}
PayloadTimes(timeoutMs) == {Finite(clock + d) : d \in Offsets(timeoutMs)} \cup NonFinite

\* the session and the machine share the clock and the sweep and nothing
\* else: a behaviour sends heartbeats for one of them
SessionUntouched == engine.lastBroadcastAtBySessionId = 0
MachineUntouched ==
    engine.lastBroadcastAtByMachineId = 0 /\ engine.machine.activeAt = CreatedAt

clampAliveTimeNoWindow(t) ==
    IF t.kind # "finite" THEN NULL
    ELSE IF t.ms > clock THEN <<clock>>
    ELSE <<t.ms>>

clampAliveTime(t) ==
    IF t.kind # "finite" THEN NULL
    ELSE IF t.ms > clock THEN <<clock>>
    ELSE IF t.ms < clock - AliveWindowMs THEN NULL
    ELSE <<t.ms>>

\* !t of a number | null
Falsy(t) == t = NULL \/ t = <<0>>

BroadcastDueAtInterval(lastBroadcastAt) == clock - lastBroadcastAt >= BroadcastIntervalMs

\* now - lastBroadcastAt > 10_000
BroadcastDue(lastBroadcastAt) == clock - lastBroadcastAt > BroadcastIntervalMs

activeAtLatest(activeAt, t) == t

\* Math.max(entity.activeAt, t)
activeAtAfter(activeAt, t) == Max({activeAt, t})

ExpiredAtThreshold(activeAt, timeoutMs) == clock - activeAt >= timeoutMs

\* the sweep's test: not (now - activeAt <= timeoutMs)
Expired(activeAt, timeoutMs) == ~(clock - activeAt <= timeoutMs)

Handled(op, id, time, events) == [op |-> op, id |-> id, time |-> time, events |-> events]

SessionEvent(data) == [type |-> "session-updated", id |-> "s1", data |-> data]
MachineEvent(data) == [type |-> "machine-updated", id |-> "m1", data |-> data]

handleSessionAlive(sid, time, thinking) ==
    LET t == clampAliveTime(time)
        session == engine.session
        after == [session EXCEPT !.active = TRUE,
                                 !.activeAt = activeAtAfter(session.activeAt, t[1]),
                                 !.thinking = thinking,
                                 !.late = Expired(activeAtAfter(session.activeAt, t[1]), sessionTimeoutMs)]
        shouldBroadcast == \/ ~session.active /\ after.active
                           \/ session.thinking # after.thinking
                           \/ BroadcastDue(engine.lastBroadcastAtBySessionId)
    IN  /\ IF Falsy(t) \/ sid # session.id
           THEN /\ engine' = engine
                /\ handled' = Handled("handleSessionAlive", sid, time, <<>>)
           ELSE /\ engine' = [engine EXCEPT !.session = after,
                                  !.lastBroadcastAtBySessionId = IF shouldBroadcast THEN clock ELSE @]
                /\ handled' = Handled("handleSessionAlive", sid, time,
                                  IF shouldBroadcast
                                  THEN <<SessionEvent([activeAt |-> after.activeAt, thinking |-> after.thinking])>>
                                  ELSE <<>>)
        /\ UNCHANGED <<clock, inactivityTimer>>
        /\ UNCHANGED outsideEngine

handleSessionEndAlways(sid, time) ==
    LET session == engine.session
    IN  /\ IF sid # session.id
           THEN /\ engine' = engine
                /\ handled' = Handled("handleSessionEnd", sid, time, <<>>)
           ELSE /\ engine' = [engine EXCEPT !.session = [session EXCEPT !.active = FALSE,
                                  !.thinking = FALSE, !.late = FALSE]]
                /\ handled' = Handled("handleSessionEnd", sid, time,
                                  <<SessionEvent([active |-> FALSE, thinking |-> FALSE])>>)
        /\ UNCHANGED <<clock, inactivityTimer>>
        /\ UNCHANGED outsideEngine

handleSessionEnd(sid, time) ==
    LET session == engine.session
    IN  /\ IF sid # session.id \/ (~session.active /\ ~session.thinking)
           THEN /\ engine' = engine
                /\ handled' = Handled("handleSessionEnd", sid, time, <<>>)
           ELSE /\ engine' = [engine EXCEPT !.session = [session EXCEPT !.active = FALSE,
                                  !.thinking = FALSE, !.late = FALSE]]
                /\ handled' = Handled("handleSessionEnd", sid, time,
                                  <<SessionEvent([active |-> FALSE, thinking |-> FALSE])>>)
        /\ UNCHANGED <<clock, inactivityTimer>>
        /\ UNCHANGED outsideEngine

\* handleMachineAlive, as seen from the engine
MachineAlive(machineId, time) ==
    LET t == clampAliveTime(time)
        machine == engine.machine
        after == [machine EXCEPT !.active = TRUE,
                                 !.activeAt = activeAtAfter(machine.activeAt, t[1]),
                                 !.late = Expired(activeAtAfter(machine.activeAt, t[1]), machineTimeoutMs)]
        shouldBroadcast == \/ ~machine.active /\ after.active
                           \/ BroadcastDue(engine.lastBroadcastAtByMachineId)
    IN  /\ IF Falsy(t) \/ machineId # machine.id
           THEN /\ engine' = engine
                /\ handled' = Handled("handleMachineAlive", machineId, time, <<>>)
           ELSE /\ engine' = [engine EXCEPT !.machine = after,
                                  !.lastBroadcastAtByMachineId = IF shouldBroadcast THEN clock ELSE @]
                /\ handled' = Handled("handleMachineAlive", machineId, time,
                                  IF shouldBroadcast
                                  THEN <<MachineEvent([activeAt |-> after.activeAt])>>
                                  ELSE <<>>)
        /\ UNCHANGED <<clock, inactivityTimer>>

handleMachineAlive(machineId, time) ==
    MachineAlive(machineId, time) /\ UNCHANGED outsideEngine

\* what the sweep does to one entity and the events it emits for it
ExpireSession(session) ==
    IF session.active /\ Expired(session.activeAt, sessionTimeoutMs)
    THEN [session EXCEPT !.active = FALSE, !.thinking = FALSE, !.late = FALSE]
    ELSE session

ExpireMachine(machine) ==
    IF machine.active /\ Expired(machine.activeAt, machineTimeoutMs)
    THEN [machine EXCEPT !.active = FALSE, !.late = FALSE]
    ELSE machine

SweepEvents ==
    (IF engine.session.active /\ Expired(engine.session.activeAt, sessionTimeoutMs)
     THEN <<SessionEvent([active |-> FALSE])>> ELSE <<>>)
    \o (IF engine.machine.active /\ Expired(engine.machine.activeAt, machineTimeoutMs)
        THEN <<MachineEvent([active |-> FALSE])>> ELSE <<>>)

\* the interval timer fires once and is not armed again
expireInactiveOnce ==
    /\ inactivityTimer = "due"
    /\ engine' = [engine EXCEPT !.session = ExpireSession(@), !.machine = ExpireMachine(@)]
    /\ handled' = Handled("expireInactive", "all", Finite(clock), SweepEvents)
    /\ inactivityTimer' = "fired"
    /\ UNCHANGED clock
    /\ UNCHANGED outsideEngine

\* the callback of setInterval(() => this.expireInactive(), 5_000)
expireInactive ==
    /\ inactivityTimer = "due"
    /\ engine' = [engine EXCEPT !.session = ExpireSession(@), !.machine = ExpireMachine(@)]
    /\ handled' = Handled("expireInactive", "all", Finite(clock), SweepEvents)
    /\ inactivityTimer' = "armed"
    /\ UNCHANGED clock
    /\ UNCHANGED outsideEngine

\* stop(): clearInterval
stop ==
    /\ inactivityTimer # "cleared"
    /\ inactivityTimer' = "cleared"
    /\ handled' = Handled("stop", "all", Finite(clock), <<>>)
    /\ UNCHANGED <<engine, clock>>
    /\ UNCHANGED outsideEngine

\* handleRealtimeEvent session-updated: refreshSession keeps the activity of
\* the session it already has and emits the session
refreshSession(sid) ==
    /\ handled' = Handled("refreshSession", sid, Finite(clock),
                      IF sid = engine.session.id
                      THEN <<SessionEvent([active |-> engine.session.active,
                                           activeAt |-> engine.session.activeAt,
                                           thinking |-> engine.session.thinking])>>
                      ELSE <<>>)
    /\ UNCHANGED <<engine, clock, inactivityTimer>>
    /\ UNCHANGED outsideEngine

\* the activity columns of the machine's row: as inserted, or as left by an
\* updateMachineDaemonState at or before now
StoredActivity ==
    {[active |-> FALSE, activeAt |-> NULL]}
    \cup {[active |-> TRUE, activeAt |-> <<clock - d>>] : d \in {0, SweepPeriodMs}}

\* handleRealtimeEvent machine-updated: refreshMachine
refreshMachine(machineId, stored) ==
    LET existing == engine.machine
        storedActiveAt == IF stored.activeAt = NULL THEN CreatedAt ELSE stored.activeAt[1]
        existingActiveAt == existing.activeAt
        useStoredActivity == storedActiveAt > existingActiveAt
        activeAt == IF useStoredActivity THEN storedActiveAt
                    ELSE IF existingActiveAt # 0 THEN existingActiveAt ELSE storedActiveAt
        active == IF useStoredActivity THEN stored.active ELSE existing.active
        machine == [existing EXCEPT !.active = active, !.activeAt = activeAt,
                                    !.late = active /\ Expired(activeAt, machineTimeoutMs)]
    IN  /\ IF machineId # existing.id
           THEN /\ engine' = engine
                /\ handled' = Handled("refreshMachine", machineId, Finite(clock), <<>>)
           ELSE /\ engine' = [engine EXCEPT !.machine = machine]
                /\ handled' = Handled("refreshMachine", machineId, Finite(clock),
                                  <<MachineEvent([active |-> active, activeAt |-> activeAt])>>)
        /\ UNCHANGED <<clock, inactivityTimer>>
        /\ UNCHANGED outsideEngine

\* one period of the interval timer passes; the callback of a period runs
\* before the next period ends.  handled is the last call of the current
\* instant.
Advance(maxClock) ==
    /\ clock < maxClock
    /\ inactivityTimer # "due"
    /\ clock' = clock + SweepPeriodMs
    /\ inactivityTimer' = IF inactivityTimer = "armed" THEN "due" ELSE inactivityTimer
    /\ handled' = Elapsed
    /\ UNCHANGED engine
    /\ UNCHANGED outsideEngine

NextEngine ==
    \/ \E sid \in {"s1", "unknown"}, time \in PayloadTimes(sessionTimeoutMs), thinking \in BOOLEAN :
           MachineUntouched /\ handleSessionAlive(sid, time, thinking)
    \/ \E sid \in {"s1", "unknown"}, time \in PayloadTimes(sessionTimeoutMs) :
           MachineUntouched /\ handleSessionEnd(sid, time)
    \/ \E machineId \in {"m1", "unknown"}, time \in PayloadTimes(machineTimeoutMs) :
           SessionUntouched /\ handleMachineAlive(machineId, time)
    \/ \E sid \in {"s1", "unknown"} : refreshSession(sid)
    \/ \E machineId \in {"m1", "unknown"}, stored \in StoredActivity :
           SessionUntouched /\ refreshMachine(machineId, stored)
    \/ expireInactive
    \/ stop
    \/ Advance(MaxClock)

SpecEngine == InitStore /\ [][NextEngine]_vars

\* the heartbeat handlers, and the time of the heartbeat just handled
AliveOps == {"handleSessionAlive", "handleMachineAlive"}
Stale(time) == time.kind # "finite" \/ time.ms < clock - AliveWindowMs
Future(time) == time.kind = "finite" /\ time.ms > clock
InWindow(time) == time.kind = "finite" /\ time.ms >= clock - AliveWindowMs /\ time.ms <= clock

\* C15: handleSessionAlive and handleMachineAlive with a timestamp older than
\* now - 10 minutes, or a non-finite one, change nothing (active, activeAt and
\* thinking keep their values) and emit no event.
C15_StaleStep ==
    (handled'.op \in AliveOps /\ Stale(handled'.time))
    => (engine' = engine /\ handled'.events = <<>>)

C15_StaleHeartbeatIgnored == [][C15_StaleStep]_vars

\* a heartbeat one millisecond too old has just been handled for the session
\* while it is active
C15_Witness ==
    /\ handled.op = "handleSessionAlive"
    /\ handled.id = "s1"
    /\ handled.time = Finite(clock - AliveWindowMs - 1)
    /\ engine.session.active

\* C16: handleSessionAlive and handleMachineAlive with a timestamp in the future
\* discard the heartbeat silently: active, activeAt and thinking are not changed
\* and no event is emitted.
C16_FutureStep ==
    (handled'.op \in AliveOps /\ Future(handled'.time))
    => (engine' = engine /\ handled'.events = <<>>)

C16_FutureHeartbeatDiscarded == [][C16_FutureStep]_vars

\* C17: activeAt of the session and of the machine never decreases and never
\* exceeds the server's clock; a heartbeat that is accepted sets it to the
\* larger of its current value and the heartbeat's time (the clock, for a time
\* ahead of it).
C17_MergeStep ==
    /\ engine'.session.activeAt >= engine.session.activeAt
    /\ engine'.machine.activeAt >= engine.machine.activeAt
    /\ (handled'.op = "handleSessionAlive" /\ handled'.id = "s1" /\ ~Stale(handled'.time))
       => engine'.session.activeAt
              = Max({engine.session.activeAt, Min(handled'.time.ms, clock)})
    /\ (handled'.op = "handleMachineAlive" /\ handled'.id = "m1" /\ ~Stale(handled'.time))
       => engine'.machine.activeAt
              = Max({engine.machine.activeAt, Min(handled'.time.ms, clock)})

C17_NotAhead == engine.session.activeAt <= clock /\ engine.machine.activeAt <= clock

C17_ActiveAtMonotone == [][C17_MergeStep]_vars /\ []C17_NotAhead

\* a heartbeat older than the session's activeAt has just been accepted
C17_Witness ==
    /\ handled.op = "handleSessionAlive"
    /\ handled.id = "s1"
    /\ InWindow(handled.time)
    /\ handled.time.ms < engine.session.activeAt
    /\ engine.session.activeAt > CreatedAt

\* C18: a sweep makes an active session inactive, clearing thinking, exactly
\* when now - activeAt > 30 s at that tick, and an active machine exactly when
\* now - activeAt > 45 s; at or below the threshold it leaves the entity as it is.
C18_SweepStep ==
    handled'.op = "expireInactive"
    => /\ IF engine.session.active /\ clock - engine.session.activeAt > sessionTimeoutMs
          THEN ~engine'.session.active /\ ~engine'.session.thinking
          ELSE engine'.session = engine.session
       /\ IF engine.machine.active /\ clock - engine.machine.activeAt > machineTimeoutMs
          THEN ~engine'.machine.active
          ELSE engine'.machine = engine.machine
       /\ engine'.session.activeAt = engine.session.activeAt
       /\ engine'.machine.activeAt = engine.machine.activeAt

C18_SweepAtThreshold == [][C18_SweepStep]_vars

\* a sweep has just run over a session whose activeAt is exactly 30 s old and
\* left it active
C18_Witness ==
    /\ handled.op = "expireInactive"
    /\ engine.session.active
    /\ clock - engine.session.activeAt = sessionTimeoutMs

\* the events of the last call that are about the entity id
EventsFor(id) == {i \in DOMAIN handled.events : handled.events[i].id = id}

\* C20: every active-to-inactive transition made by the sweep or by
\* handleSessionEnd emits exactly one update event for that entity, and neither
\* emits anything for an entity that is already inactive (inactive and not
\* thinking, for handleSessionEnd); handleSessionEnd sets active and thinking to
\* false and leaves activeAt as it is.
C20_DeactivateStep ==
    /\ handled'.op = "expireInactive"
       => /\ Cardinality(EventsFor("s1")')
                = IF engine.session.active /\ ~engine'.session.active THEN 1 ELSE 0
          /\ Cardinality(EventsFor("m1")')
                = IF engine.machine.active /\ ~engine'.machine.active THEN 1 ELSE 0
          /\ \A i \in DOMAIN handled'.events :
                 /\ handled'.events[i].type \in {"session-updated", "machine-updated"}
                 /\ handled'.events[i].data = [active |-> FALSE]
    /\ (handled'.op = "handleSessionEnd" /\ handled'.id = "s1")
       => /\ ~engine'.session.active
          /\ ~engine'.session.thinking
          /\ engine'.session.activeAt = engine.session.activeAt
          /\ engine'.machine = engine.machine
          /\ IF engine.session.active \/ engine.session.thinking
             THEN handled'.events = <<SessionEvent([active |-> FALSE, thinking |-> FALSE])>>
             ELSE handled'.events = <<>> /\ engine' = engine

QuietTicks == 11
QuietMaxClock == StartClock + QuietTicks * SweepPeriodMs
Heartbeating == clock <= StartClock + SweepPeriodMs

NextEngineQuiet ==
    \/ \E sid \in {"s1", "unknown"}, time \in PayloadTimes(sessionTimeoutMs), thinking \in BOOLEAN :
           Heartbeating /\ MachineUntouched /\ handleSessionAlive(sid, time, thinking)
    \/ \E sid \in {"s1", "unknown"}, time \in PayloadTimes(sessionTimeoutMs) :
           Heartbeating /\ MachineUntouched /\ handleSessionEnd(sid, time)
    \/ \E machineId \in {"m1", "unknown"}, time \in PayloadTimes(machineTimeoutMs) :
           Heartbeating /\ SessionUntouched /\ handleMachineAlive(machineId, time)
    \/ \E sid \in {"s1", "unknown"} : Heartbeating /\ refreshSession(sid)
    \/ \E machineId \in {"m1", "unknown"}, stored \in StoredActivity :
           Heartbeating /\ SessionUntouched /\ refreshMachine(machineId, stored)
    \/ expireInactive
    \/ stop
    \/ Advance(QuietMaxClock)

\* time passes, and the callback of a timer that is due runs
SpecEngineFair ==
    /\ InitStore
    /\ [][NextEngineQuiet]_vars
    /\ WF_vars(Advance(QuietMaxClock))
    /\ WF_vars(expireInactive)

Running == inactivityTimer # "cleared"

\* C19 as stated: an active session is never more than 35 s, an active machine
\* never more than 50 s, past its activeAt while the engine runs.
C19_WithinOnePeriod ==
    Running => /\ engine.session.active
                  => clock - engine.session.activeAt <= sessionTimeoutMs + SweepPeriodMs
               /\ engine.machine.active
                  => clock - engine.machine.activeAt <= machineTimeoutMs + SweepPeriodMs

\* the same, for entities that were not made active with an activeAt already
\* past the timeout
C19_WithinOnePeriodUnlessLate ==
    Running => /\ (engine.session.active /\ ~engine.session.late)
                  => clock - engine.session.activeAt <= sessionTimeoutMs + SweepPeriodMs
               /\ (engine.machine.active /\ ~engine.machine.late)
                  => clock - engine.machine.activeAt <= machineTimeoutMs + SweepPeriodMs

\* C19: while the engine is not stopped, an active session or machine that
\* gets no further heartbeat becomes inactive, at the first sweep tick at which
\* now - activeAt exceeds 30 s (45 s); that is within 35 s (50 s) of activeAt
\* unless the entity was made active with an activeAt already that old, and
\* then it is the next tick.
C19_ExpiresWithoutHeartbeat ==
    /\ (engine.session.active /\ Running) ~> (~engine.session.active \/ ~Running)
    /\ (engine.machine.active /\ Running) ~> (~engine.machine.active \/ ~Running)
    /\ []C19_WithinOnePeriodUnlessLate

\* a sweep has just made the session inactive 35 s after its activeAt
C19_Witness ==
    /\ handled.op = "expireInactive"
    /\ EventsFor("s1") # {}
    /\ ~engine.session.active
    /\ clock - engine.session.activeAt = sessionTimeoutMs + SweepPeriodMs

\* ------------------------------------------------ SyncEngine: heartbeat broadcasts
\* the heartbeat just handled was accepted for the entity id
Accepted(op, id) == handled.op = op /\ handled.id = id /\ ~Stale(handled.time)

\* C21: an accepted heartbeat emits an update event, exactly one, if and only
\* if the entity was inactive before it, or (sessions) the thinking flag
\* changed, or more than 10 s have passed since the last heartbeat broadcast
\* for that id, whose time lastBroadcastAt keeps; a heartbeat that changes
\* neither is therefore broadcast at most once in any 10 s.
C21_BroadcastStep ==
    /\ Accepted("handleSessionAlive", "s1")'
       => LET due == \/ ~engine.session.active
                     \/ engine.session.thinking # engine'.session.thinking
                     \/ clock - engine.lastBroadcastAtBySessionId > BroadcastIntervalMs
          IN  /\ handled'.events
                    = IF due THEN <<SessionEvent([activeAt |-> engine'.session.activeAt,
                                                  thinking |-> engine'.session.thinking])>>
                      ELSE <<>>
              /\ engine'.lastBroadcastAtBySessionId
                    = IF due THEN clock ELSE engine.lastBroadcastAtBySessionId
    /\ Accepted("handleMachineAlive", "m1")'
       => LET due == \/ ~engine.machine.active
                     \/ clock - engine.lastBroadcastAtByMachineId > BroadcastIntervalMs
          IN  /\ handled'.events
                    = IF due THEN <<MachineEvent([activeAt |-> engine'.machine.activeAt])>>
                      ELSE <<>>
              /\ engine'.lastBroadcastAtByMachineId
                    = IF due THEN clock ELSE engine.lastBroadcastAtByMachineId
    /\ (handled'.op \notin AliveOps)
       => /\ engine'.lastBroadcastAtBySessionId = engine.lastBroadcastAtBySessionId
          /\ engine'.lastBroadcastAtByMachineId = engine.lastBroadcastAtByMachineId

C21_HeartbeatThrottle == [][C21_BroadcastStep]_vars

\* a heartbeat for the active session, exactly 10 s after the last broadcast,
\* has just been accepted without an event
C21_Witness ==
    /\ Accepted("handleSessionAlive", "s1")
    /\ handled.events = <<>>
    /\ engine.session.active
    /\ clock - engine.lastBroadcastAtBySessionId = BroadcastIntervalMs

\* C23: refreshMachine of a machine already in memory carries its in-memory
\* active flag and activeAt over unchanged, so a machine the sweep marked
\* inactive stays inactive after a metadata or daemon-state write and a
\* refresh, until a heartbeat is accepted.
C23_RefreshStep ==
    (handled'.op = "refreshMachine" /\ handled'.id = "m1")
    => /\ engine'.machine.active = engine.machine.active
       /\ engine'.machine.activeAt = engine.machine.activeAt

C23_RefreshKeepsActivity == [][C23_RefreshStep]_vars

\* ------------------------------------------------- SyncEngine: refreshSession
\* a parameter the caller leaves out
Undefined == "undefined"

\* metadata and agentState values: "a" conforms to the schema, "bad" is JSON
\* that does not
RefreshValues == {"a", "bad"}
Conforming == {"a"}

\* MetadataSchema.safeParse(v): parsed.success ? parsed.data : null
MetadataSchemaParse(v) == IF v \in Conforming THEN v ELSE "null"
AgentStateSchemaParse(v) == IF v \in Conforming THEN v ELSE "null"

\* sessions a behaviour creates and messages it appends
RefreshSessions == 1
RefreshMessages == 2

\* message contents: "w1" and "w2" carry a todo-write payload
RefreshContents == {"hi", "w1", "w2"}

extractTodoWriteTodosFromMessageContent(content) ==
    IF content = "w1" THEN <<"list1">>
    ELSE IF content = "w2" THEN <<"list2">>
    ELSE NULL

\* TodosSchema.safeParse(stored.todos): parsed.success ? parsed.data : undefined
TodosSchemaParse(v) == IF v \in {"list1", "list2"} THEN <<v>> ELSE NULL

\* UPDATE sessions SET todos ... WHERE id = @id AND namespace = @namespace
\*   AND (todos_updated_at IS NULL OR todos_updated_at < @todos_updated_at)
\* A namespace left out is bound as NULL, or the binding throws and the call
\* catches it: no row is updated either way.
SqlSetSessionTodos(rows, id, todos, todosUpdatedAt, namespace) ==
    IF /\ id \in DOMAIN rows
       /\ namespace # Undefined
       /\ rows[id].namespace = namespace
       /\ (rows[id].todos_updated_at = NULL \/ rows[id].todos_updated_at[1] < todosUpdatedAt)
    THEN [rows EXCEPT ![id].todos = JSONstringify(todos),
                      ![id].todos_updated_at = <<todosUpdatedAt>>,
                      ![id].updated_at = IF @ > todosUpdatedAt THEN @ ELSE todosUpdatedAt,
                      ![id].seq = @ + 1]
    ELSE rows

\* the indexes of the messages that carry a todo-write payload
TodoWrites(msgs) ==
    {i \in 1..Len(msgs) : extractTodoWriteTodosFromMessageContent(msgs[i].content) # NULL}

\* the session table after the backfill loop of refreshSession
Backfilled(rows, msgRows, sessionId) ==
    LET msgs == getMessages(msgRows, sessionId, <<MaxPageLimit>>, NULL)
        hits == TodoWrites(msgs)
        message == msgs[Max(hits)]
    IN  IF hits = {}
        THEN rows
        ELSE SqlSetSessionTodos(rows, sessionId,
                 extractTodoWriteTodosFromMessageContent(message.content)[1],
                 message.createdAt, Undefined)

SessionFromStore(stored, existing) ==
    [id |-> stored.id,
     createdAt |-> stored.createdAt,
     active |-> stored.active,
     activeAt |-> IF stored.activeAt # NULL THEN stored.activeAt[1] ELSE stored.createdAt,
     metadata |-> MetadataSchemaParse(stored.metadata),
     metadataVersion |-> stored.metadataVersion,
     agentState |-> AgentStateSchemaParse(stored.agentState),
     agentStateVersion |-> stored.agentStateVersion,
     thinking |-> FALSE,
     todos |-> IF stored.todos = "null" THEN NULL ELSE TodosSchemaParse(stored.todos)]

\* const session: Session = { ... }: existing is the session in memory, if any
Session(stored, existing) ==
    [id |-> stored.id,
     createdAt |-> stored.createdAt,
     active |-> IF existing # NULL THEN existing[1].active ELSE stored.active,
     activeAt |-> IF existing # NULL THEN existing[1].activeAt
                  ELSE IF stored.activeAt # NULL THEN stored.activeAt[1] ELSE stored.createdAt,
     metadata |-> MetadataSchemaParse(stored.metadata),
     metadataVersion |-> stored.metadataVersion,
     agentState |-> AgentStateSchemaParse(stored.agentState),
     agentStateVersion |-> stored.agentStateVersion,
     thinking |-> IF existing # NULL THEN existing[1].thinking ELSE FALSE,
     todos |-> IF stored.todos = "null" THEN NULL ELSE TodosSchemaParse(stored.todos)]

InMemory(sessionId) == sessionId \in DOMAIN cache.sessions

Without(f, k) == [i \in DOMAIN f \ {k} |-> f[i]]
With(f, k, v) == [i \in DOMAIN f \cup {k} |-> IF i = k THEN v ELSE f[i]]

\* refreshSession(sessionId): the table and the engine after it, the events it
\* emits and the session it returns
Refreshed(sessionId) ==
    IF sessionId \notin DOMAIN sessions
    THEN [rows |-> sessions,
          cache |-> [cache EXCEPT !.sessions = Without(@, sessionId)],
          events |-> IF InMemory(sessionId)
                     THEN <<[type |-> "session-removed", id |-> sessionId]>>
                     ELSE <<>>,
          session |-> NULL]
    ELSE LET first == toStoredSession(sessions[sessionId])
             scan == /\ first.todos = "null"
                     /\ sessionId \notin cache.todoBackfillAttemptedSessionIds
             existing == IF InMemory(sessionId) THEN <<cache.sessions[sessionId]>> ELSE NULL
             Outcome(rows, session) ==
                 [rows |-> rows,
                  cache |-> [cache EXCEPT
                      !.sessions = With(@, sessionId, session),
                      !.todoBackfillAttemptedSessionIds =
                          IF scan THEN @ \cup {sessionId} ELSE @],
                  events |-> <<[type |-> IF existing # NULL
                                         THEN "session-updated" ELSE "session-added",
                                id |-> sessionId, data |-> session]>>,
                  session |-> <<session>>]
             \* stored = this.store.getSession(sessionId) is read again after the scan
             outcomes ==
                 UNION {{Outcome(rows, session) :
                            session \in {Session(toStoredSession(rows[sessionId]), existing)}} :
                        rows \in {IF scan THEN Backfilled(sessions, messages, sessionId)
                                  ELSE sessions}}
         IN  CHOOSE outcome \in outcomes : TRUE

\* handleRealtimeEvent session-updated, getOrCreateSession: refreshSession
RefreshSession(sessionId) ==
    \E r \in {Refreshed(sessionId)} :
        /\ sessions' = r.rows
        /\ cache' = r.cache
        /\ handled' = Handled("refreshSession", sessionId, Finite(clock), r.events)
        /\ UNCHANGED <<messages, ret>>
        /\ UNCHANGED outsideCache

\* handleSessionAlive({sid, time: Date.now(), thinking}) with the sessions of
\* the store: a session not in memory is refreshed first
handleSessionAliveNow(sid, thinking) ==
    \E r \in {IF InMemory(sid)
               THEN [rows |-> sessions, cache |-> cache, events |-> <<>>,
                     session |-> <<cache.sessions[sid]>>]
               ELSE Refreshed(sid)} :
        /\ IF r.session = NULL
           THEN /\ cache' = r.cache
                /\ handled' = Handled("handleSessionAlive", sid, Finite(clock), r.events)
           ELSE LET session == r.session[1]
                    after == [session EXCEPT !.active = TRUE,
                                             !.activeAt = activeAtAfter(session.activeAt, clock),
                                             !.thinking = thinking]
                    lastBroadcastAt == IF sid \in DOMAIN cache.lastBroadcastAtBySessionId
                                       THEN cache.lastBroadcastAtBySessionId[sid] ELSE 0
                    shouldBroadcast == \/ ~session.active /\ after.active
                                       \/ session.thinking # after.thinking
                                       \/ BroadcastDue(lastBroadcastAt)
                IN  /\ cache' = [r.cache EXCEPT
                           !.sessions = With(@, sid, after),
                           !.lastBroadcastAtBySessionId =
                               IF shouldBroadcast THEN With(@, sid, clock) ELSE @]
                    /\ handled' = Handled("handleSessionAlive", sid, Finite(clock),
                           r.events \o
                           (IF shouldBroadcast
                            THEN <<[type |-> "session-updated", id |-> sid,
                                    data |-> [activeAt |-> after.activeAt,
                                              thinking |-> after.thinking]]>>
                            ELSE <<>>))
        /\ sessions' = r.rows
        /\ UNCHANGED <<messages, ret>>
        /\ UNCHANGED outsideCache

\* what the store's callers leave alone
outsideRows == <<calls, lockVars, settingsVars, engine, clock, inactivityTimer, cache, rpc, db, cliVars>>

NextRefresh ==
    \/ \E metadata \in RefreshValues :
          /\ SelectSessionByTag(sessions, "t1", "n1") # {} \/ nextId <= RefreshSessions
          /\ GetOrCreateSession("t1", metadata, "null", "n1")
          /\ handled' = Elapsed
          /\ UNCHANGED outsideRows
    \/ \E id \in SessionIds, metadata \in RefreshValues :
          /\ id \in DOMAIN sessions
          /\ sessions[id].metadata_version < MaxVersion
          /\ UpdateSessionMetadata(id, metadata, sessions[id].metadata_version, "n1", FALSE, FALSE)
          /\ handled' = Elapsed
          /\ UNCHANGED outsideRows
    \/ \E id \in SessionIds, agentState \in RefreshValues :
          /\ id \in DOMAIN sessions
          /\ sessions[id].agent_state_version < MaxVersion
          /\ UpdateSessionAgentState(id, agentState, sessions[id].agent_state_version, "n1", FALSE)
          /\ handled' = Elapsed
          /\ UNCHANGED outsideRows
    \/ \E id \in SessionIds :
          /\ id \in DOMAIN sessions
          /\ DeleteSession(id, "n1")
          /\ handled' = Elapsed
          /\ UNCHANGED outsideRows
    \/ \E id \in SessionIds, content \in RefreshContents :
          /\ nextMsgId <= RefreshMessages
          /\ AddMessage(id, content, NULL)
          /\ handled' = Elapsed
          /\ UNCHANGED outsideRows
    \/ \E sessionId \in SessionIds : RefreshSession(sessionId)
    \/ \E sid \in SessionIds, thinking \in BOOLEAN : handleSessionAliveNow(sid, thinking)

SpecRefresh == InitStore /\ [][NextRefresh]_vars

\* C22: refreshSession(id) of a session in memory keeps its in-memory active,
\* activeAt and thinking and takes metadata, agentState (as far as they pass
\* their schema, null otherwise) and their versions from the stored row; it
\* emits exactly one event, session-added when the id was not in memory,
\* session-updated when it was, session-removed when the row is gone and the
\* id was in memory, and none when the row is gone and the id was not.
C22_RefreshStep ==
    handled'.op = "refreshSession"
    => LET id == handled'.id
       IN  /\ \A other \in DOMAIN cache.sessions \ {id} :
                  other \in DOMAIN cache'.sessions /\ cache'.sessions[other] = cache.sessions[other]
           /\ IF id \in DOMAIN sessions
              THEN LET stored == toStoredSession(sessions'[id])
                       session == cache'.sessions[id]
                   IN  /\ id \in DOMAIN cache'.sessions
                       /\ session.metadata = MetadataSchemaParse(stored.metadata)
                       /\ session.metadataVersion = stored.metadataVersion
                       /\ session.agentState = AgentStateSchemaParse(stored.agentState)
                       /\ session.agentStateVersion = stored.agentStateVersion
                       /\ InMemory(id)
                          => /\ session.active = cache.sessions[id].active
                             /\ session.activeAt = cache.sessions[id].activeAt
                             /\ session.thinking = cache.sessions[id].thinking
                       /\ Len(handled'.events) = 1
                       /\ handled'.events[1].id = id
                       /\ handled'.events[1].type
                              = IF InMemory(id) THEN "session-updated" ELSE "session-added"
              ELSE /\ id \notin DOMAIN cache'.sessions
                   /\ handled'.events
                          = IF InMemory(id)
                            THEN <<[type |-> "session-removed", id |-> id]>>
                            ELSE <<>>

C22_RefreshSessionMerges == [][C22_RefreshStep]_vars

\* a refresh has just brought a second version of the metadata into a
\* session that is active and thinking in memory
C22_Witness ==
    /\ handled.op = "refreshSession"
    /\ InMemory(handled.id)
    /\ handled.events[1].type = "session-updated"
    /\ cache.sessions[handled.id].active
    /\ cache.sessions[handled.id].thinking
    /\ cache.sessions[handled.id].metadataVersion = 2

\* the messages refreshSession scans
Scanned(sessionId) == getMessages(messages, sessionId, <<MaxPageLimit>>, NULL)

\* C30: the first refreshSession of a session whose stored todos are null
\* scans at most the 200 most recent messages newest-first, and if one carries
\* a todo-write payload the stored todos afterwards equal the newest such
\* payload, with that message's createdAt as todosUpdatedAt; no later refresh
\* of the session scans again.
C30_BackfillStep ==
    (handled'.op = "refreshSession" /\ handled'.id \in DOMAIN sessions)
    => LET id == handled'.id
           msgs == Scanned(id)
           hits == TodoWrites(msgs)
           newest == msgs[Max(hits)]
       IN  IF sessions[id].todos = NULL /\ id \notin cache.todoBackfillAttemptedSessionIds
           THEN /\ id \in cache'.todoBackfillAttemptedSessionIds
                /\ IF hits = {}
                   THEN sessions' = sessions
                   ELSE /\ sessions'[id].todos
                              = JSONstringify(extractTodoWriteTodosFromMessageContent(newest.content)[1])
                        /\ sessions'[id].todos_updated_at = <<newest.createdAt>>
           ELSE /\ sessions' = sessions
                /\ cache'.todoBackfillAttemptedSessionIds = cache.todoBackfillAttemptedSessionIds

C30_TodoBackfill == [][C30_BackfillStep]_vars

\* --------------------------------------------- RPC: registry, calls, handlers
\* socket.timeout(30_000)
RpcTimeoutMs == 30000

\* the server's clock advances RpcTickMs at a time, RpcTicks times
RpcTickMs == 10000
RpcTicks == 3
MaxRpcClock == StartClock + RpcTicks * RpcTickMs

\* sockets that connect and rpcCalls that are made
MaxSockets == 2
MaxRequests == 1

\* the machines whose daemons connect, and the scope prefix of each
Owners == {"m1", "m2"}

\* the machine the calls are made for
Callees == {"m1"}

\* the handlers setRPCHandlers registers, in order; stop-daemon, which
\* neither reads its params nor throws, and the common handlers are left out
Methods == <<"spawn-happy-session", "stop-session">>

\* a method no daemon has a handler for
OtherMethod == "git-status"

Range(f) == {f[i] : i \in DOMAIN f}
Restrict(f, S) == [x \in S |-> f[x]]

\* `${ownerId}:${method}`
Scoped(ownerId, method) == <<ownerId, method>>

\* the names a daemon's RpcHandlerManager announces, in order
Announced(ownerId) == [i \in DOMAIN Methods |-> Scoped(ownerId, Methods[i])]

\* params of a call: complete, without directory / sessionId, or such that
\* spawnSession / stopSession fails
Params == {"ok", "missing", "fails"}

Returned(value) == [threw |-> FALSE, value |-> value]
Threw(message) == [threw |-> TRUE, message |-> message]

HandlerLenient(method, params) ==
    IF method = "spawn-happy-session"
    THEN IF params = "fails" THEN Threw("errorMessage")
         ELSE Returned([type |-> "success"])
    ELSE IF params = "fails" THEN Threw("Session not found or failed to stop")
         ELSE Returned([message |-> "Session stopped"])

\* the handlers of setRPCHandlers
Handler(method, params) ==
    IF method = "spawn-happy-session"
    THEN IF params = "missing" THEN Threw("Directory is required")
         ELSE IF params = "fails" THEN Threw("errorMessage")
         ELSE Returned([type |-> "success"])
    ELSE IF params = "missing" THEN Threw("Session ID is required")
         ELSE IF params = "fails" THEN Threw("Session not found or failed to stop")
         ELSE Returned([message |-> "Session stopped"])

\* RpcHandlerManager.handleRequest: the handler's result, or a failure
\* payload when there is no handler or the handler throws
handleRequest(ownerId, data) ==
    IF data.method \notin Range(Announced(ownerId))
    THEN JSONstringify([error |-> "Method not found"])
    ELSE LET r == Handler(data.method[2], data.params)
         IN  IF r.threw THEN JSONstringify([error |-> r.message]) ELSE JSONstringify(r.value)

\* JSON.parse(response)
JSONparse(response) == response[1]

\* RpcRegistry.unregisterAll(socket): the names the socket owns are removed
unregisterAll(registry, socketId) ==
    Restrict(registry, {name \in DOMAIN registry : registry[name] # socketId})

\* this.io.of('/cli').sockets.get(socketId)
Connected(socketId) == socketId \in DOMAIN rpc.sockets /\ rpc.sockets[socketId].server

InFlight(request) == request.state \in {"sent", "acknowledged"}

connectSilently(ownerId) ==
    /\ Len(rpc.sockets) < MaxSockets
    /\ \A s \in DOMAIN rpc.sockets : rpc.sockets[s].owner = ownerId => ~rpc.sockets[s].client
    /\ rpc' = [rpc EXCEPT !.sockets = Append(@,
                  [owner |-> ownerId, client |-> TRUE, server |-> TRUE,
                   announce |-> IF Len(rpc.sockets) = 0 THEN Announced(ownerId) ELSE <<>>])]
    /\ UNCHANGED <<clock, outsideRpc>>

\* socket.on('connect'): onSocketConnect emits rpc-register for every handler.
\* socket.io-client has one connection at a time; the server may still hold
\* the previous one.
connect(ownerId) ==
    /\ Len(rpc.sockets) < MaxSockets
    /\ \A s \in DOMAIN rpc.sockets : rpc.sockets[s].owner = ownerId => ~rpc.sockets[s].client
    /\ rpc' = [rpc EXCEPT !.sockets = Append(@,
                  [owner |-> ownerId, client |-> TRUE, server |-> TRUE,
                   announce |-> Announced(ownerId)])]
    /\ UNCHANGED <<clock, outsideRpc>>

\* the server's rpc-register handler: RpcRegistry.register(socket, method)
register(socketId) ==
    /\ Connected(socketId)
    /\ rpc.sockets[socketId].announce # <<>>
    /\ rpc' = [rpc EXCEPT
           !.rpcRegistry = With(@, Head(rpc.sockets[socketId].announce), socketId),
           !.sockets[socketId].announce = Tail(@)]
    /\ UNCHANGED <<clock, outsideRpc>>

\* socket.on('disconnect') of the daemon: onSocketDisconnect, stopKeepAlive
disconnect(socketId) ==
    /\ socketId \in DOMAIN rpc.sockets
    /\ rpc.sockets[socketId].client
    /\ rpc' = [rpc EXCEPT !.sockets[socketId].client = FALSE]
    /\ UNCHANGED <<clock, outsideRpc>>

\* the server's disconnect handler: the socket leaves the namespace and the
\* registry forgets it; what it had sent and not yet been read is dropped
disconnected(socketId) ==
    /\ Connected(socketId)
    /\ rpc' = [rpc EXCEPT
           !.rpcRegistry = unregisterAll(@, socketId),
           !.sockets[socketId].server = FALSE,
           !.sockets[socketId].announce = <<>>]
    /\ UNCHANGED <<clock, outsideRpc>>

NewRequest(key, params) ==
    [method |-> key, params |-> params, socket |-> 0, sentAt |-> clock,
     state |-> "rejected", error |-> "", response |-> NULL, acks |-> 0, result |-> NULL]

rpcCallUnscoped(ownerId, method, params) ==
    LET key == Scoped(ownerId, method)
        names == {name \in DOMAIN rpc.rpcRegistry : name[2] = method}
        request == NewRequest(key, params)
    IN  /\ Len(rpc.requests) < MaxRequests
        /\ clock + RpcTimeoutMs <= MaxRpcClock
        /\ rpc' = [rpc EXCEPT !.requests = Append(@,
               IF names = {}
               THEN [request EXCEPT !.error = "RPC handler not registered"]
               ELSE [request EXCEPT !.socket = rpc.rpcRegistry[CHOOSE name \in names : TRUE],
                                    !.state = "sent"])]
        /\ UNCHANGED <<clock, outsideRpc>>

\* sessionRpc / machineRpc: rpcCall(`${ownerId}:${method}`, params) up to the
\* emit; the errors are thrown before anything is sent
rpcCall(ownerId, method, params) ==
    LET key == Scoped(ownerId, method)
        socketId == IF key \in DOMAIN rpc.rpcRegistry THEN rpc.rpcRegistry[key] ELSE 0
        request == NewRequest(key, params)
    IN  /\ Len(rpc.requests) < MaxRequests
        /\ clock + RpcTimeoutMs <= MaxRpcClock
        /\ rpc' = [rpc EXCEPT !.requests = Append(@,
               IF socketId = 0
               THEN [request EXCEPT !.error = "RPC handler not registered"]
               ELSE IF ~Connected(socketId)
               THEN [request EXCEPT !.error = "RPC socket disconnected"]
               ELSE [request EXCEPT !.socket = socketId, !.state = "sent"])]
        /\ UNCHANGED <<clock, outsideRpc>>

\* socket.on('rpc-request'): callback(await handleRequest(data)), on a daemon
\* that is still connected
request(i) ==
    /\ i \in DOMAIN rpc.requests
    /\ rpc.requests[i].state = "sent"
    /\ rpc.sockets[rpc.requests[i].socket].client
    /\ rpc' = [rpc EXCEPT
           !.requests[i].state = "acknowledged",
           !.requests[i].response =
               handleRequest(rpc.sockets[rpc.requests[i].socket].owner, rpc.requests[i]),
           !.requests[i].acks = @ + 1]
    /\ UNCHANGED <<clock, outsideRpc>>

\* emitWithAck resolves: the acknowledgement reaches a socket the server
\* still holds; a string response is parsed
acknowledged(i) ==
    /\ i \in DOMAIN rpc.requests
    /\ rpc.requests[i].state = "acknowledged"
    /\ Connected(rpc.requests[i].socket)
    /\ rpc' = [rpc EXCEPT !.requests[i].state = "resolved",
                          !.requests[i].result = <<JSONparse(rpc.requests[i].response)>>]
    /\ UNCHANGED <<clock, outsideRpc>>

timeoutWhileConnected(i) ==
    /\ i \in DOMAIN rpc.requests
    /\ InFlight(rpc.requests[i])
    /\ Connected(rpc.requests[i].socket)
    /\ clock >= rpc.requests[i].sentAt + RpcTimeoutMs
    /\ rpc' = [rpc EXCEPT !.requests[i].state = "failed",
                          !.requests[i].error = "operation has timed out"]
    /\ UNCHANGED <<clock, outsideRpc>>

\* the timer of socket.timeout(30_000): emitWithAck rejects
timeout(i) ==
    /\ i \in DOMAIN rpc.requests
    /\ InFlight(rpc.requests[i])
    /\ clock >= rpc.requests[i].sentAt + RpcTimeoutMs
    /\ rpc' = [rpc EXCEPT !.requests[i].state = "failed",
                          !.requests[i].error = "operation has timed out"]
    /\ UNCHANGED <<clock, outsideRpc>>

\* time passes on the server; only a pending timer makes it matter
RpcAdvance ==
    /\ \E i \in DOMAIN rpc.requests : InFlight(rpc.requests[i])
    /\ clock < MaxRpcClock
    /\ clock' = clock + RpcTickMs
    /\ UNCHANGED <<rpc, outsideRpc>>

NextRpc ==
    \/ \E ownerId \in Owners : connect(ownerId)
    \/ \E socketId \in 1..MaxSockets : register(socketId)
    \/ \E socketId \in 1..MaxSockets : disconnect(socketId)
    \/ \E socketId \in 1..MaxSockets : disconnected(socketId)
    \/ \E ownerId \in Callees, method \in Range(Methods) \cup {OtherMethod}, params \in Params :
          rpcCall(ownerId, method, params)
    \/ \E i \in 1..MaxRequests : request(i)
    \/ \E i \in 1..MaxRequests : acknowledged(i)
    \/ \E i \in 1..MaxRequests : timeout(i)
    \/ RpcAdvance

SpecRpc == InitStore /\ [][NextRpc]_vars

\* the clock runs and due timers fire
SpecRpcFair ==
    /\ InitStore
    /\ [][NextRpc]_vars
    /\ WF_vars(RpcAdvance)
    /\ \A i \in 1..MaxRequests : WF_vars(timeout(i))

\* ------------------------------------------------------------ claims: RPC
\* the request the step adds, if it adds one
Called == Len(rpc'.requests) = Len(rpc.requests) + 1

\* C24: an rpcCall for a scoped key that no connection has registered, or
\* whose registered connection the server no longer holds, is rejected in the
\* call itself: nothing is sent, no time passes and the request is never
\* acknowledged; a call that is forwarded goes to the connection registered
\* for exactly that key, whose owner is the key's owner.
C24_CallStep ==
    /\ Called
       => LET call == rpc'.requests[Len(rpc'.requests)]
              key == call.method
              served == key \in DOMAIN rpc.rpcRegistry /\ Connected(rpc.rpcRegistry[key])
          IN  /\ clock' = clock
              /\ ~served => /\ call.state = "rejected"
                            /\ call.socket = 0
                            /\ call.error \in {"RPC handler not registered",
                                               "RPC socket disconnected"}
              /\ served => /\ call.state = "sent"
                           /\ call.socket = rpc.rpcRegistry[key]
                           /\ rpc.sockets[call.socket].owner = key[1]
    /\ \A i \in DOMAIN rpc.requests :
          rpc.requests[i].state = "rejected"
          => rpc'.requests[i] = rpc.requests[i] /\ rpc.requests[i].acks = 0

C24_RejectedImmediately == [][C24_CallStep]_vars

\* m1:stop-session was rejected while m2's connection serves m2:stop-session
C24_Witness ==
    \E i \in DOMAIN rpc.requests :
        /\ rpc.requests[i].state = "rejected"
        /\ rpc.requests[i].method = Scoped("m1", "stop-session")
        /\ Scoped("m2", "stop-session") \in DOMAIN rpc.rpcRegistry
        /\ Connected(rpc.rpcRegistry[Scoped("m2", "stop-session")])

Settled(i) == i \in DOMAIN rpc.requests /\ rpc.requests[i].state \in {"resolved", "failed"}

\* C25: every forwarded call ends: it resolves with the acknowledgement or
\* fails with the timeout error, which no other failure of rpcCall carries
\* and which comes no earlier than 30 s after the request was sent, also when
\* the connection is gone by then.
C25_CallTerminates ==
    /\ [](\A i \in DOMAIN rpc.requests :
             rpc.requests[i].state = "failed"
             => /\ rpc.requests[i].error = "operation has timed out"
                /\ clock >= rpc.requests[i].sentAt + RpcTimeoutMs)
    /\ [](\A i \in DOMAIN rpc.requests :
             rpc.requests[i].state = "rejected"
             => rpc.requests[i].error # "operation has timed out")
    /\ \A i \in 1..MaxRequests :
          (i \in DOMAIN rpc.requests /\ InFlight(rpc.requests[i])) ~> Settled(i)

\* a call failed by its timer after its connection had gone
C25_Witness ==
    \E i \in DOMAIN rpc.requests :
        /\ rpc.requests[i].state = "failed"
        /\ ~Connected(rpc.requests[i].socket)

\* C26: when the server's side of a connection closes, every call in flight
\* on that connection is failed in that step.
C26_DisconnectStep ==
    \A s \in DOMAIN rpc.sockets :
        (rpc.sockets[s].server /\ ~rpc'.sockets[s].server)
        => \A i \in DOMAIN rpc.requests :
              (rpc.requests[i].socket = s /\ InFlight(rpc.requests[i]))
              => rpc'.requests[i].state = "failed"

C26_FailedAtDisconnect == [][C26_DisconnectStep]_vars

\* C27: the registry maps a scoped name to one connection, the one whose
\* registration was processed last; every name maps to a connection the
\* server holds; a disconnect removes the names that map to the closing
\* connection and leaves every other entry as it was; a (re)connecting daemon
\* announces all its methods on the new connection.
C27_RouterStep ==
    /\ \A s \in DOMAIN rpc.sockets :
          /\ (Connected(s) /\ rpc.sockets[s].announce # <<>>
                 /\ rpc'.sockets[s].announce = Tail(rpc.sockets[s].announce)
                 /\ rpc'.sockets[s].server)
             => /\ Head(rpc.sockets[s].announce) \in DOMAIN rpc'.rpcRegistry
                /\ rpc'.rpcRegistry[Head(rpc.sockets[s].announce)] = s
          /\ (rpc.sockets[s].server /\ ~rpc'.sockets[s].server)
             => \A name \in DOMAIN rpc.rpcRegistry :
                   rpc.rpcRegistry[name] # s
                   => /\ name \in DOMAIN rpc'.rpcRegistry
                      /\ rpc'.rpcRegistry[name] = rpc.rpcRegistry[name]
    /\ Len(rpc'.sockets) = Len(rpc.sockets) + 1
       => LET new == rpc'.sockets[Len(rpc'.sockets)]
          IN  new.server /\ new.announce = Announced(new.owner)
    /\ \A name \in DOMAIN rpc'.rpcRegistry :
          /\ rpc'.sockets[rpc'.rpcRegistry[name]].server
          /\ rpc'.sockets[rpc'.rpcRegistry[name]].owner = name[1]

C28_AckStep ==
    \A i \in DOMAIN rpc.requests :
        /\ (rpc.requests[i].state = "sent" /\ rpc'.requests[i].state # "sent"
               /\ rpc'.requests[i].state # "failed")
           => LET call == rpc'.requests[i]
              IN  /\ call.state = "acknowledged"
                  /\ call.acks = 1
                  /\ call.response # NULL
                  /\ ("error" \in DOMAIN JSONparse(call.response))
                     <=> \/ call.method \notin Range(Announced(rpc.sockets[call.socket].owner))
                         \/ call.params \in {"missing", "fails"}
        /\ rpc'.requests[i].acks <= 1
        /\ rpc'.requests[i].state = "resolved"
           => rpc'.requests[i].result = <<JSONparse(rpc'.requests[i].response)>>

MaxOpens == 2

\* a table that is not one of the Store's
OtherTables == {"legacy"}

\* definitions a table found in the file may have
Definitions == {Current, "old"}

\* user_version values found in the file: none, the expected one, another one
UserVersions == {0, SCHEMA_VERSION, SCHEMA_VERSION + 1}

\* the files a Store may be pointed at
Databases ==
    {[user_version |-> v, tables |-> t, opened |-> <<>>] :
        v \in UserVersions,
        t \in UNION {[names -> Definitions] : names \in SUBSET (REQUIRED_TABLES \cup OtherTables)}}

\* PRAGMA user_version
getUserVersion(d) == d.user_version

\* SELECT name FROM sqlite_master WHERE type = 'table' ... LIMIT 1
hasAnyUserTables(d) == DOMAIN d.tables # {}

\* CREATE TABLE IF NOT EXISTS for each of the Store's tables
createSchema(d) ==
    [d EXCEPT !.tables = [name \in DOMAIN d.tables \cup REQUIRED_TABLES |->
                             IF name \in DOMAIN d.tables THEN d.tables[name] ELSE Current]]

setUserVersion(d, version) == [d EXCEPT !.user_version = version]

\* the error assertRequiredTablesPresent throws, "" if none
assertRequiredTablesPresent(d) ==
    IF REQUIRED_TABLES \ DOMAIN d.tables # {}
    THEN "SQLite schema is missing required tables"
    ELSE ""

\* initSchema: the file after it and the error it throws, "" if none
initSchema(d) ==
    IF getUserVersion(d) = 0
    THEN IF hasAnyUserTables(d)
         THEN [db |-> setUserVersion(d, SCHEMA_VERSION), error |-> ""]
         ELSE [db |-> setUserVersion(createSchema(d), SCHEMA_VERSION), error |-> ""]
    ELSE IF getUserVersion(d) # SCHEMA_VERSION
    THEN [db |-> d, error |-> "SQLite schema version mismatch"]
    ELSE [db |-> d, error |-> assertRequiredTablesPresent(d)]

\* new Store(dbPath)
Open ==
    /\ Len(db.opened) < MaxOpens
    /\ \E r \in {initSchema(db)} :
           db' = [r.db EXCEPT !.opened = Append(@, r.error)]
    /\ UNCHANGED outsideDb

NextSchema == Open

InitSchema == InitRows /\ db \in Databases /\ InitCli

SpecSchema == InitSchema /\ [][NextSchema]_vars

\* C29: an open of a file with no marker and no tables creates the schema
\* and stamps the marker; with no marker and some table it stamps the marker
\* and leaves every table as it was; with another marker it fails and leaves
\* marker and tables as they were; after a successful open the marker is the
\* expected one; an open that follows a successful open succeeds and changes
\* nothing.
C29_OpenStep ==
    Len(db'.opened) = Len(db.opened) + 1
    => LET error == db'.opened[Len(db'.opened)]
       IN  /\ (db.user_version = 0 /\ DOMAIN db.tables = {})
              => /\ error = ""
                 /\ db'.tables = [name \in REQUIRED_TABLES |-> Current]
                 /\ db'.user_version = SCHEMA_VERSION
           /\ (db.user_version = 0 /\ DOMAIN db.tables # {})
              => /\ error = ""
                 /\ db'.tables = db.tables
                 /\ db'.user_version = SCHEMA_VERSION
           /\ db.user_version \notin {0, SCHEMA_VERSION}
              => /\ error = "SQLite schema version mismatch"
                 /\ db'.tables = db.tables
                 /\ db'.user_version = db.user_version
           /\ error = "" => db'.user_version = SCHEMA_VERSION
           /\ (db.opened # <<>> /\ db.opened[Len(db.opened)] = "")
              => /\ error = ""
                 /\ db'.tables = db.tables
                 /\ db'.user_version = db.user_version

C29_SchemaGuard == [][C29_OpenStep]_vars

\* C40: after every open that succeeds, whatever the file held before, the
\* five required tables exist.
C40_OpenedStep ==
    (Len(db'.opened) = Len(db.opened) + 1 /\ db'.opened[Len(db'.opened)] = "")
    => REQUIRED_TABLES \subseteq DOMAIN db'.tables

C40_RequiredTablesExist == [][C40_OpenedStep]_vars

\* a row with the columns an update may write put back to their old values
SessionFrame(row, old, col, vcol) ==
    [row EXCEPT ![col] = old[col], ![vcol] = old[vcol],
                !.updated_at = old.updated_at, !.seq = old.seq]

\* C31: a successful updateX changes, in the one row it targets, only the
\* value and version of its field group, updated_at and seq; the other field
\* group, active and active_at of that row, every other row and the other
\* tables stay as they were.
C31_FrameStep ==
    (ret'.op \in {"updateSessionMetadata", "updateSessionAgentState",
                  "updateMachineMetadata", "updateMachineDaemonState"}
        /\ ret'.out.result = "success")
    => LET id == ret'.args.id
           col == CASE ret'.op = "updateSessionMetadata" -> "metadata"
                    [] ret'.op = "updateSessionAgentState" -> "agent_state"
                    [] ret'.op = "updateMachineMetadata" -> "metadata"
                    [] OTHER -> "daemon_state"
           vcol == CASE ret'.op = "updateSessionMetadata" -> "metadata_version"
                     [] ret'.op = "updateSessionAgentState" -> "agent_state_version"
                     [] ret'.op = "updateMachineMetadata" -> "metadata_version"
                     [] OTHER -> "daemon_state_version"
       IN  /\ messages' = messages
           /\ IF ret'.op \in {"updateSessionMetadata", "updateSessionAgentState"}
              THEN /\ machines' = machines
                   /\ DOMAIN sessions' = DOMAIN sessions
                   /\ \A i \in DOMAIN sessions : i # id => sessions'[i] = sessions[i]
                   /\ SessionFrame(sessions'[id], sessions[id], col, vcol) = sessions[id]
              ELSE /\ sessions' = sessions
                   /\ DOMAIN machines' = DOMAIN machines
                   /\ \A i \in DOMAIN machines : i # id => machines'[i] = machines[i]
                   /\ SessionFrame(machines'[id], machines[id], col, vcol) = machines[id]

C31_UpdateFrame == [][C31_FrameStep]_vars

\* ------------------------------- ApiMachineClient: versioned machine updates
\* versions a machine column reaches and attempts one call makes
DaemonMaxVersion == 3
MaxTries == 3

\* values that pass MachineMetadataSchema / DaemonStateSchema
DaemonValues == {"a", "b"}

\* the handler the caller passes: it depends on the value it is given
handler(value) == IF value = "a" THEN "b" ELSE "a"

\* the store call behind machine-update-metadata / machine-update-state and
\* the acknowledgement: [result], or [result, version, value]
Answer(op, rows, id, value, expectedVersion, namespace, fault) ==
    IF fault THEN [rows |-> rows, ack |-> Error]
    ELSE IF op = "metadata"
    THEN LET after == SqlUpdateMachineMetadata(rows, id, JSONstringify(value),
                                               expectedVersion, namespace, now)
         IN  [rows |-> after,
              ack |-> UpdateOutcome(Changes(rows, id, namespace, "metadata_version",
                                            expectedVersion),
                                    after, id, namespace, expectedVersion, value,
                                    "metadata_version", "metadata")]
    ELSE LET after == SqlUpdateMachineDaemonState(rows, id, NullableJson(value),
                                                  expectedVersion, namespace, now)
         IN  [rows |-> after,
              ack |-> UpdateOutcome(Changes(rows, id, namespace, "daemon_state_version",
                                            expectedVersion),
                                    after, id, namespace, expectedVersion, value,
                                    "daemon_state_version", "daemon_state")]

\* next == null ? null : parsed.success ? parsed.data : the value held
Adopted(held, next) ==
    IF next = "null" THEN "null" ELSE IF next \in DaemonValues THEN next ELSE held

\* the client after the callback of backoff has seen the acknowledgement:
\* success returns, version-mismatch throws after adopting, anything else
\* falls off the end of the callback
Acknowledged(client, op, ack) ==
    LET seen == [client EXCEPT !.tries = @ + 1, !.answer = <<ack>>]
    IN  IF ack.result \in {"success", "version-mismatch"}
        THEN LET adopted ==
                     IF op = "metadata"
                     THEN [seen EXCEPT !.metadata = Adopted(@, ack.value),
                                       !.metadataVersion = ack.version]
                     ELSE [seen EXCEPT !.daemonState = Adopted(@, ack.value),
                                       !.daemonStateVersion = ack.version]
             IN  IF ack.result = "success"
                 THEN [adopted EXCEPT !.pc = "resolved"]
                 ELSE adopted
        ELSE [seen EXCEPT !.pc = "resolved"]

\* the daemon's machine is registered before its client is built
registerMachine ==
    /\ "m1" \notin DOMAIN machines
    /\ machines' = ("m1" :> NewMachineRow("m1", "n1", "a", "null", now))
    /\ UNCHANGED <<now, daemon, outsideDaemon>>

\* updateMachineMetadata(handler) / updateDaemonState(handler) is called
updateMachine(op) ==
    /\ "m1" \in DOMAIN machines
    /\ daemon.pc \in {"idle", "resolved"}
    /\ daemon' = [daemon EXCEPT !.pc = op, !.tries = 0, !.answer = NULL]
    /\ UNCHANGED <<machines, now, outsideDaemon>>

\* one run of the callback of backoff: handler, emitWithAck, the server's
\* update, the acknowledgement
attempt(fault) ==
    /\ daemon.pc \in {"metadata", "state"}
    /\ daemon.tries < MaxTries
    /\ \E r \in {Answer(daemon.pc, machines, "m1",
                        handler(IF daemon.pc = "metadata" THEN daemon.metadata
                                ELSE daemon.daemonState),
                        IF daemon.pc = "metadata" THEN daemon.metadataVersion
                        ELSE daemon.daemonStateVersion,
                        "n1", fault)} :
           /\ \A i \in DOMAIN r.rows : /\ r.rows[i].metadata_version <= DaemonMaxVersion
                                       /\ r.rows[i].daemon_state_version <= DaemonMaxVersion
           /\ machines' = r.rows
           /\ daemon' = Acknowledged(daemon, daemon.pc, r.ack)
    /\ UNCHANGED <<now, outsideDaemon>>

\* another writer of the same machine gets its update in
otherWriter(op, value) ==
    /\ "m1" \in DOMAIN machines
    /\ \E r \in {Answer(op, machines, "m1", value,
                        IF op = "metadata" THEN machines["m1"].metadata_version
                        ELSE machines["m1"].daemon_state_version,
                        "n1", FALSE)} :
           /\ \A i \in DOMAIN r.rows : /\ r.rows[i].metadata_version <= DaemonMaxVersion
                                       /\ r.rows[i].daemon_state_version <= DaemonMaxVersion
           /\ machines' = r.rows
    /\ UNCHANGED <<now, daemon, outsideDaemon>>

NextDaemon ==
    \/ registerMachine
    \/ \E op \in {"metadata", "state"} : updateMachine(op)
    \/ \E fault \in BOOLEAN : attempt(fault)
    \/ \E op \in {"metadata", "state"}, value \in DaemonValues : otherWriter(op, value)

SpecDaemon == InitStore /\ [][NextDaemon]_vars

\* C32: of the three acknowledgements, version-mismatch makes the client
\* adopt the returned version and value and run again (the next attempt
\* submits handler(adopted value) with the adopted version), error makes it
\* run again too, and only success ends the call, with the client's version
\* equal to the row's.
C32_AttemptStep ==
    (daemon.pc \in {"metadata", "state"} /\ daemon'.tries = daemon.tries + 1)
    => LET ack == daemon'.answer[1]
           row == machines["m1"]
           rowAfter == machines'["m1"]
           held == IF daemon.pc = "metadata" THEN daemon.metadata ELSE daemon.daemonState
           heldAfter == IF daemon.pc = "metadata" THEN daemon'.metadata ELSE daemon'.daemonState
           version == IF daemon.pc = "metadata" THEN daemon.metadataVersion
                      ELSE daemon.daemonStateVersion
           versionAfter == IF daemon.pc = "metadata" THEN daemon'.metadataVersion
                           ELSE daemon'.daemonStateVersion
           stored == IF daemon.pc = "metadata" THEN rowAfter.metadata_version
                     ELSE rowAfter.daemon_state_version
           column == IF daemon.pc = "metadata" THEN rowAfter.metadata ELSE rowAfter.daemon_state
       IN  /\ ack.result = "version-mismatch"
              => /\ daemon'.pc = daemon.pc
                 /\ versionAfter = stored
                 /\ heldAfter = safeJsonParse(column)
                 /\ machines' = machines
           /\ ack.result = "error" => daemon'.pc = daemon.pc /\ machines' = machines
           /\ ack.result = "success"
              => /\ daemon'.pc = "resolved"
                 /\ versionAfter = stored
                 /\ column = NullableJson(handler(held))
                 /\ versionAfter = version + 1
           /\ daemon'.pc = "resolved" => ack.result = "success"

C32_AcksTreatedApart == [][C32_AttemptStep]_vars


\* ---------------------------------------------------------------------------
\* cli/src/codex/utils/codexCliOverrides.ts: parseCodexCliOverrides

\* the longest argument list drawn
MaxArgs == 3

SANDBOX_VALUES == {"read-only", "workspace-write", "danger-full-access"}

APPROVAL_POLICY_VALUES == {"untrusted", "on-failure", "on-request", "never"}

\* A token is <<prefix, rest>>, its text being prefix followed by rest: prefix is
\* one of the two prefixes the parser tests with startsWith, or empty.
Plain(text) == <<"", text>>

startsWith(arg, prefix) == arg[1] = prefix

slice(arg) == arg[2]

Tokens ==
    {Plain(t) : t \in {"--", "--full-auto", "--yolo",
                       "--dangerously-bypass-approvals-and-sandbox",
                       "-s", "--sandbox", "-a", "--ask-for-approval",
                       "read-only", "danger-full-access", "never", "nope"}}
    \cup {<<"--sandbox=", v>> : v \in {"workspace-write", "nope"}}
    \cup {<<"--ask-for-approval=", v>> : v \in {"untrusted", "bad"}}

ArgLists == UNION {[1..n -> Tokens] : n \in 0..MaxArgs}

NoOverrides == [sandbox |-> Undefined, approvalPolicy |-> Undefined]

\* a stand-in for has that lets every value through
hasAnything(values, args, j) == j <= Len(args)

\* VALUES.has(args[j]): args[j] is undefined past the end
has(values, args, j) == j <= Len(args) /\ args[j][1] = "" /\ args[j][2] \in values

\* the for loop from index i on, with the overrides collected so far
RECURSIVE parseFrom(_, _, _)
parseFrom(args, i, o) ==
    IF i > Len(args) THEN o
    ELSE LET arg == args[i] IN
         IF arg = Plain("--") THEN o
         ELSE IF arg = Plain("--full-auto")
         THEN parseFrom(args, i + 1, [approvalPolicy |-> "on-request", sandbox |-> "workspace-write"])
         ELSE IF arg = Plain("--yolo")
         THEN parseFrom(args, i + 1, [approvalPolicy |-> "never", sandbox |-> "danger-full-access"])
         ELSE IF arg = Plain("--dangerously-bypass-approvals-and-sandbox")
         THEN parseFrom(args, i + 1, [approvalPolicy |-> "never", sandbox |-> "danger-full-access"])
         ELSE IF arg = Plain("-s") \/ arg = Plain("--sandbox")
         THEN IF has(SANDBOX_VALUES, args, i + 1)
              THEN parseFrom(args, i + 2, [o EXCEPT !.sandbox = args[i + 1][2]])
              ELSE parseFrom(args, i + 1, o)
         ELSE IF startsWith(arg, "--sandbox=")
         THEN IF has(SANDBOX_VALUES, <<Plain(slice(arg))>>, 1)
              THEN parseFrom(args, i + 1, [o EXCEPT !.sandbox = slice(arg)])
              ELSE parseFrom(args, i + 1, o)
         ELSE IF arg = Plain("-a") \/ arg = Plain("--ask-for-approval")
         THEN IF has(APPROVAL_POLICY_VALUES, args, i + 1)
              THEN parseFrom(args, i + 2, [o EXCEPT !.approvalPolicy = args[i + 1][2]])
              ELSE parseFrom(args, i + 1, o)
         ELSE IF startsWith(arg, "--ask-for-approval=")
                   /\ has(APPROVAL_POLICY_VALUES, <<Plain(slice(arg))>>, 1)
         THEN parseFrom(args, i + 1, [o EXCEPT !.approvalPolicy = slice(arg)])
         ELSE parseFrom(args, i + 1, o)

parseCodexCliOverrides(args) ==
    IF Len(args) = 0 THEN NoOverrides ELSE parseFrom(args, 1, NoOverrides)

parse ==
    /\ overrides.out = NULL
    /\ overrides' = [overrides EXCEPT !.out = parseCodexCliOverrides(overrides.args)]
    /\ UNCHANGED <<outsideCodex, startConfig>>

NextOverrides ==
    \/ parse

InitOverrides ==
    /\ InitServer
    /\ InitClients
    /\ startConfig = NotCalled
    /\ overrides \in {[args |-> a, out |-> NULL] : a \in ArgLists}

SpecOverrides == InitOverrides /\ [][NextOverrides]_vars

\* the tokens before the first "--"
Considered(args) ==
    LET ends == {i \in 1..Len(args) : args[i] = Plain("--")} IN
    IF ends = {} THEN 1..Len(args)
    ELSE {i \in 1..Len(args) : \A e \in ends : i < e}

\* what the occurrence at i sets sandbox to, Undefined when it is not a valid one
SetsSandbox(args, i) ==
    LET arg == args[i] IN
    IF arg = Plain("--full-auto") THEN "workspace-write"
    ELSE IF arg \in {Plain("--yolo"), Plain("--dangerously-bypass-approvals-and-sandbox")}
    THEN "danger-full-access"
    ELSE IF arg \in {Plain("-s"), Plain("--sandbox")} /\ i < Len(args)
              /\ args[i + 1][1] = "" /\ args[i + 1][2] \in SANDBOX_VALUES
    THEN args[i + 1][2]
    ELSE IF arg[1] = "--sandbox=" /\ arg[2] \in SANDBOX_VALUES THEN arg[2]
    ELSE Undefined

SetsApproval(args, i) ==
    LET arg == args[i] IN
    IF arg = Plain("--full-auto") THEN "on-request"
    ELSE IF arg \in {Plain("--yolo"), Plain("--dangerously-bypass-approvals-and-sandbox")}
    THEN "never"
    ELSE IF arg \in {Plain("-a"), Plain("--ask-for-approval")} /\ i < Len(args)
              /\ args[i + 1][1] = "" /\ args[i + 1][2] \in APPROVAL_POLICY_VALUES
    THEN args[i + 1][2]
    ELSE IF arg[1] = "--ask-for-approval=" /\ arg[2] \in APPROVAL_POLICY_VALUES THEN arg[2]
    ELSE Undefined

LastValid(args, Sets(_, _)) ==
    LET valid == {i \in Considered(args) : Sets(args, i) # Undefined} IN
    IF valid = {} THEN Undefined
    ELSE Sets(args, CHOOSE i \in valid : \A j \in valid : j <= i)

\* C34: parseCodexCliOverrides looks only at the tokens before the first "--";
\* sandbox and approvalPolicy are each what the last valid occurrence among
\* them sets (a flag followed by an allowed value, a flag=value with an allowed
\* value, or a convenience flag), undefined when there is none: an occurrence
\* with a value outside the allowed set changes nothing.
C34_LastValidOccurrenceWins ==
    overrides.out # NULL =>
        /\ overrides.out.sandbox = LastValid(overrides.args, SetsSandbox)
        /\ overrides.out.approvalPolicy = LastValid(overrides.args, SetsApproval)

\* parsed: a valid sandbox flag, then another one with another value that
\* won, then the terminator
C34_Witness ==
    /\ overrides.out # NULL
    /\ Len(overrides.args) = 3
    /\ SetsSandbox(overrides.args, 1) \notin {Undefined, SetsSandbox(overrides.args, 2)}
    /\ overrides.out.sandbox = SetsSandbox(overrides.args, 2)
    /\ overrides.out.sandbox # Undefined
    /\ overrides.args[3] = Plain("--")


\* ---------------------------------------------------------------------------
\* cli/src/codex/utils/codexStartConfig.ts: buildCodexStartConfig

PermissionModes == {"default", "read-only", "safe-yolo", "yolo"}

Models == {Undefined, "o3"}

Modes == [permissionMode : PermissionModes, model : Models]

\* cliOverrides: left out (NULL), or what parseCodexCliOverrides can return
CliOverrides ==
    {NULL} \cup [sandbox : SANDBOX_VALUES \cup {Undefined},
                 approvalPolicy : APPROVAL_POLICY_VALUES \cup {Undefined}]

resolveApprovalPolicy(mode) ==
    CASE mode.permissionMode = "default" -> "untrusted"
      [] mode.permissionMode = "read-only" -> "never"
      [] mode.permissionMode = "safe-yolo" -> "on-failure"
      [] mode.permissionMode = "yolo" -> "on-failure"
      [] OTHER -> "throws"

resolveSandbox(mode) ==
    CASE mode.permissionMode = "default" -> "workspace-write"
      [] mode.permissionMode = "read-only" -> "read-only"
      [] mode.permissionMode = "safe-yolo" -> "workspace-write"
      [] mode.permissionMode = "yolo" -> "danger-full-access"
      [] OTHER -> "throws"

\* cliOverrides?.field ?? fallback
Overridden(cliOverrides, field, fallback) ==
    IF cliOverrides = NULL THEN fallback
    ELSE IF cliOverrides[field] = Undefined THEN fallback
    ELSE cliOverrides[field]

\* buildCodexStartConfig with the overrides let through in every mode
buildCodexStartConfigOverriding(args) ==
    [sandbox |-> Overridden(args.cliOverrides, "sandbox", resolveSandbox(args.mode)),
     approvalPolicy |-> Overridden(args.cliOverrides, "approvalPolicy",
                                   resolveApprovalPolicy(args.mode)),
     model |-> args.mode.model]

\* sandbox, approval-policy and model of the start config; prompt and config
\* are copied from the arguments
buildCodexStartConfig(args) ==
    LET approvalPolicy == resolveApprovalPolicy(args.mode)
        sandbox == resolveSandbox(args.mode)
        allowCliOverrides == args.mode.permissionMode = "default"
        cliOverrides == IF allowCliOverrides THEN args.cliOverrides ELSE NULL
    IN  [sandbox |-> Overridden(cliOverrides, "sandbox", sandbox),
         approvalPolicy |-> Overridden(cliOverrides, "approvalPolicy", approvalPolicy),
         model |-> args.mode.model]

build ==
    /\ startConfig.out = NULL
    /\ startConfig' = [startConfig EXCEPT !.out = buildCodexStartConfig(startConfig.args)]
    /\ UNCHANGED <<outsideCodex, overrides>>

NextStartConfig ==
    \/ build

InitStartConfig ==
    /\ InitServer
    /\ InitClients
    /\ overrides = NotCalled
    /\ startConfig \in {[args |-> a, out |-> NULL] :
                            a \in [mode : Modes, cliOverrides : CliOverrides]}

SpecStartConfig == InitStartConfig /\ [][NextStartConfig]_vars

\* C33: the CLI overrides reach sandbox and approval-policy only in
\* permission mode "default"; in "read-only", "safe-yolo" and "yolo" both are
\* the values of the mode whatever cliOverrides holds, and in "default" without
\* an override they are "workspace-write" and "untrusted".
C33_OverridesOnlyInDefault ==
    startConfig.out # NULL =>
        LET mode == startConfig.args.mode
            given == startConfig.args.cliOverrides
            out == startConfig.out
            Given(field) == given # NULL /\ given[field] # Undefined
        IN  /\ mode.permissionMode = "read-only" =>
                    out.sandbox = "read-only" /\ out.approvalPolicy = "never"
            /\ mode.permissionMode = "safe-yolo" =>
                    out.sandbox = "workspace-write" /\ out.approvalPolicy = "on-failure"
            /\ mode.permissionMode = "yolo" =>
                    out.sandbox = "danger-full-access" /\ out.approvalPolicy = "on-failure"
            /\ mode.permissionMode = "default" =>
                    /\ out.sandbox = IF Given("sandbox") THEN given.sandbox
                                     ELSE "workspace-write"
                    /\ out.approvalPolicy = IF Given("approvalPolicy") THEN given.approvalPolicy
                                            ELSE "untrusted"

\* built in mode yolo with overrides that ask for something else
C33_Witness ==
    /\ startConfig.out # NULL
    /\ startConfig.args.mode.permissionMode = "yolo"
    /\ startConfig.args.cliOverrides # NULL
    /\ startConfig.args.cliOverrides.sandbox = "read-only"
    /\ startConfig.args.cliOverrides.approvalPolicy = "never"
    /\ startConfig.out.sandbox = "danger-full-access"


\* ---------------------------------------------------------------------------
\* SyncEngine.sendMessage

\* the deliveries of one behaviour
MaxSends == 3

\* cached.slice(-200)
CachedMessages == 200

\* seq.slice(-n)
Last(seq, n) == IF Len(seq) <= n THEN seq ELSE SubSeq(seq, Len(seq) - n + 1, Len(seq))

\* this.sessionMessages.get(sessionId) ?? []
Cached(c, sessionId) ==
    IF sessionId \in DOMAIN c.sessionMessages THEN c.sessionMessages[sessionId] ELSE <<>>

\* the 'update' sent to the room session:<sid> of /cli, and the event
\* 'message-received' handed to the listeners
Emissions(sessionId, msg) ==
    <<[emit |-> "new-message", sid |-> sessionId, id |-> msg.id],
      [emit |-> "message-received", sid |-> sessionId, id |-> msg.id]>>

\* The content sent is the text: meta (sentFrom, permissionMode, model) rides
\* along and decides nothing. payload.localId ?? undefined is the localId.
sendMessage(sessionId, text, localId) ==
    /\ AddMessage(sessionId, text, localId)
    /\ LET msg == ret'.out IN
       IF msg = SqliteConstraint
       THEN cache' = cache
       ELSE cache' = [cache EXCEPT
                !.sessionMessages =
                    [s \in DOMAIN @ \cup {sessionId} |->
                        IF s = sessionId
                        THEN Last(Append(Cached(cache, sessionId), msg), CachedMessages)
                        ELSE @[s]],
                !.emitted = @ \o Emissions(sessionId, msg)]
    /\ UNCHANGED <<calls, lockVars, settingsVars, engineVars, rpc, db, cliVars>>

NextSend ==
    \/ \E tag \in Tags :
          /\ SelectSessionByTag(sessions, tag, "n1") # {} \/ nextId <= MaxSessions
          /\ GetOrCreateSession(tag, "a", "null", "n1")
          /\ UNCHANGED outsideStore
    \/ \E sessionId \in SessionIds, text \in Contents, localId \in LocalIds :
          /\ nextMsgId <= MaxMessages
          /\ Len(cache.emitted) < 2 * MaxSends
          /\ sendMessage(sessionId, text, localId)

SpecSend == InitStore /\ [][NextSend]_vars

Emitted(c, kind, id) == {i \in 1..Len(c.emitted) : c.emitted[i].emit = kind /\ c.emitted[i].id = id}

C35_SendStep ==
    /\ \A i \in 1..Len(cache'.emitted) :
          /\ Cardinality(Emitted(cache', "new-message", cache'.emitted[i].id)) <= 1
          /\ Cardinality(Emitted(cache', "message-received", cache'.emitted[i].id)) <= 1
    /\ \A s \in DOMAIN cache'.sessionMessages :
          LET cached == cache'.sessionMessages[s] IN
          /\ Len(cached) <= CachedMessages
          /\ \A i, j \in 1..Len(cached) : cached[i].id = cached[j].id => i = j
    /\ (/\ ret'.op = "addMessage"
        /\ ret'.args.localId # NULL
        /\ SelectByLocalId(messages, ret'.args.sessionId, ret'.args.localId) # {})
          => cache'.emitted = cache.emitted

\* C35: over any sequence of sendMessage calls each stored message is sent to
\* the CLI room and announced as message-received at most once, the cached
\* messages of a session hold no id twice and never more than 200 entries,
\* and a sendMessage whose localId was used before delivers nothing.
C35_ResubmitIdempotent == [][C35_SendStep]_vars


\* ---------------------------------------------------------------------------
\* ApiMachineClient: the keep-alive, from the timer to the sweep

\* setInterval(..., 20_000)
KeepAliveMs == 20000

\* the delay a machine-alive may take from the emit to handleMachineAlive
HandledWithinMs == machineTimeoutMs - KeepAliveMs

\* how far the client's clock is off the server's
SkewMs == 50000
Skews == {0 - SkewMs, 0, SkewMs}

\* connects of one behaviour, and the periods of the sweep it runs through
MaxConnects == 2
AliveTicks == 16
MaxAliveClock == StartClock + AliveTicks * SweepPeriodMs

stopKeepAlive(a) ==
    IF a.keepAliveInterval # NULL
    THEN [a EXCEPT !.timers = {t \in @ : t.id # a.keepAliveInterval[1]},
                   !.keepAliveInterval = NULL]
    ELSE a

startKeepAlive(a) ==
    LET stopped == stopKeepAlive(a) IN
    [stopped EXCEPT !.timers = @ \cup {[id |-> a.connects, due |-> clock + KeepAliveMs]},
                    !.keepAliveInterval = <<a.connects>>]

\* socket.on('connect'): the updateDaemonState it starts is the one above, and
\* what reaches the engine of it is stateApplied
socketConnect ==
    /\ ~alive.connected
    /\ alive.connects < MaxConnects
    /\ alive' = startKeepAlive([alive EXCEPT !.connected = TRUE, !.connects = @ + 1,
                                             !.heard = FALSE])
    /\ UNCHANGED <<engineVars, outsideAlive>>

\* socket.on('disconnect')
socketDisconnect ==
    /\ alive.connected
    /\ alive' = stopKeepAlive([alive EXCEPT !.connected = FALSE])
    /\ UNCHANGED <<engineVars, outsideAlive>>

\* a timer that fires once
keepAliveTickOnce(timer) ==
    /\ timer \in alive.timers
    /\ timer.due <= clock
    /\ alive' = [alive EXCEPT
            !.wire = @ \cup {[time |-> clock + alive.skewMs, emittedAt |-> clock,
                              connect |-> alive.connects]},
            !.timers = @ \ {timer}]
    /\ UNCHANGED <<engineVars, outsideAlive>>

\* the callback of the interval: emit machine-alive with time: Date.now()
keepAliveTick(timer) ==
    /\ timer \in alive.timers
    /\ timer.due <= clock
    /\ alive' = [alive EXCEPT
            !.wire = @ \cup {[time |-> clock + alive.skewMs, emittedAt |-> clock,
                              connect |-> alive.connects]},
            !.timers = (@ \ {timer}) \cup {[timer EXCEPT !.due = @ + KeepAliveMs]}]
    /\ UNCHANGED <<engineVars, outsideAlive>>

\* the server receives a machine-alive and calls handleMachineAlive
deliver(beat) ==
    /\ beat \in alive.wire
    /\ MachineAlive("m1", Finite(beat.time))
    /\ alive' = [alive EXCEPT !.wire = @ \ {beat},
                              !.heard = @ \/ (alive.connected /\ beat.connect = alive.connects)]
    /\ UNCHANGED outsideAlive

\* a machine-update-state of the connected client has written the row
\* (active = 1, active_at = now) and the engine refreshes the machine
stateApplied ==
    /\ alive.connected
    /\ refreshMachine("m1", [active |-> TRUE, activeAt |-> <<clock>>])

\* time passes: not past a timer that is due, and not past the delay a
\* machine-alive may take
AliveAdvance ==
    /\ \A timer \in alive.timers : timer.due > clock
    /\ \A beat \in alive.wire : clock < beat.emittedAt + HandledWithinMs
    /\ Advance(MaxAliveClock)

NextAlive ==
    \/ socketConnect
    \/ socketDisconnect
    \/ \E timer \in alive.timers : keepAliveTick(timer)
    \/ \E beat \in alive.wire : deliver(beat)
    \/ stateApplied
    \/ expireInactive
    \/ AliveAdvance

InitAlive ==
    /\ InitServer
    /\ InitDaemon
    /\ InitLaunchers
    /\ InitCodex
    /\ alive \in {[NewAlive EXCEPT !.skewMs = d] : d \in Skews}

SpecAlive == InitAlive /\ [][NextAlive]_vars

Swept == inactivityTimer = "due" /\ inactivityTimer' = "armed"

C36_AnySweepStep ==
    /\ Cardinality(alive'.timers) <= 1
    /\ alive'.wire \ alive.wire # {} => alive.connected
    /\ Swept /\ alive.connected =>
          ~(engine.machine.active /\ Expired(engine.machine.activeAt, machineTimeoutMs))

\* C36 as stated: the client has at most one keep-alive timer and emits
\* machine-alive only while connected, and with every machine-alive handled
\* within 25 s no sweep marks the machine of a connected client inactive.
C36_ConnectedNeverInactive == [][C36_AnySweepStep]_vars

C36_SweepStep ==
    /\ Cardinality(alive'.timers) <= 1
    /\ alive'.wire \ alive.wire # {} => alive.connected
    /\ Swept /\ alive.connected /\ alive.heard /\ alive.skewMs >= 0 =>
          ~Expired(engine.machine.activeAt, machineTimeoutMs)

\* C36: the client has at most one keep-alive timer and emits machine-alive
\* only while connected; once a machine-alive of the present connection has
\* been handled, with every machine-alive handled within 25 s of its emission
\* and the client's clock not behind the server's, no sweep finds
\* now - activeAt > 45 s for the machine while the client stays connected.
C36_HeardNeverInactive == [][C36_SweepStep]_vars

\* a sweep has just found the connected, heard machine at exactly 45 s
C36_Witness ==
    /\ handled.op = "expireInactive"
    /\ alive.connected /\ alive.heard /\ alive.skewMs = 0
    /\ engine.machine.active
    /\ clock - engine.machine.activeAt = machineTimeoutMs


\* ---------------------------------------------------------------------------
\* cli/src/codex/codexLocalLauncher.ts

\* messages the session's queue takes in one behaviour
MaxQueued == 3

ExitReasons == {"switch", "exit"}

\* if (!exitReason) { exitReason = reason }
assign(l, reason) == IF l.exitReason = "null" THEN [l EXCEPT !.exitReason = reason] ELSE l

\* if (!processAbortController.signal.aborted) { processAbortController.abort() }
abortProcess(l) == [l EXCEPT !.aborted = TRUE]

\* return value, then the finally block up to its await scanner.cleanup()
finally(l, value) ==
    [l EXCEPT !.returning = value, !.exitFuture = "resolved", !.handlers = "noop",
              !.pc = "cleanup"]

\* buildHapiMcpBridge resolves, or rejects before the try block is entered
bridgeStarted(ok) ==
    /\ local.pc = "bridge"
    /\ local' = [local EXCEPT !.pc = IF ok THEN "scanner" ELSE "threw"]
    /\ UNCHANGED outsideLocal

\* createCodexSessionScanner resolves (or rejects): the handlers are
\* registered and the two tests ahead of the loop are made; codexLocal is
\* awaited when both fail
scannerCreated(ok) ==
    /\ local.pc = "scanner"
    /\ local' = IF ~ok THEN [local EXCEPT !.pc = "threw"]
                ELSE IF local.exitReason # "null" THEN finally(local, local.exitReason)
                ELSE IF local.queue > 0 THEN finally(local, "switch")
                ELSE [local EXCEPT !.handlers = "registered", !.pc = "codexLocal"]
    /\ UNCHANGED outsideLocal

\* onSessionMatchFailed of the scanner, from its creation to its cleanup
handleSessionMatchFailed ==
    /\ local.pc \in {"scanner", "codexLocal"}
    /\ local' = abortProcess(assign(local, "exit"))
    /\ UNCHANGED outsideLocal

\* the RPC handler 'abort'
doAbort ==
    /\ local.handlers = "registered"
    /\ local' = [abortProcess(assign(local, "switch")) EXCEPT
                    !.queue = 0, !.waiting = @ \cup {"abort"}]
    /\ UNCHANGED outsideLocal

\* doSwitch assigning without the test
doSwitchOverwriting(caller) ==
    /\ local.handlers = "registered"
    /\ local' = [abortProcess([local EXCEPT !.exitReason = "switch"]) EXCEPT
                    !.waiting = @ \cup {caller}]
    /\ UNCHANGED outsideLocal

\* doSwitch, called as the RPC handler 'switch' or by the queue's onMessage
doSwitch(caller) ==
    /\ local.handlers = "registered"
    /\ local' = [abortProcess(assign(local, "switch")) EXCEPT !.waiting = @ \cup {caller}]
    /\ UNCHANGED outsideLocal

\* a message is pushed to session.queue before the onMessage callback is set
\* or after it is cleared
queued ==
    /\ local.handlers # "registered"
    /\ local.pc \notin {"returned", "threw"}
    /\ local.queue < MaxQueued
    /\ local' = [local EXCEPT !.queue = @ + 1]
    /\ UNCHANGED outsideLocal

\* a message is pushed while the callback is set: onMessage runs doSwitch
onMessage ==
    /\ local.handlers = "registered"
    /\ local.queue < MaxQueued
    /\ local' = [abortProcess(assign(local, "switch")) EXCEPT
                    !.queue = @ + 1, !.waiting = @ \cup {"onMessage"}]
    /\ UNCHANGED outsideLocal

\* codexLocal resolves: the process has exited
exited ==
    /\ local.pc = "codexLocal"
    /\ local' = IF local.exitReason = "null"
                THEN finally(assign(local, "exit"), "exit")
                ELSE finally(local, local.exitReason)
    /\ UNCHANGED outsideLocal

\* codexLocal rejects; policy is what getLocalLaunchExitReason answers
failed(policy) ==
    /\ local.pc = "codexLocal"
    /\ LET failureExitReason == IF local.exitReason # "null" THEN local.exitReason ELSE policy
           l == assign(local, failureExitReason)
       IN  local' = finally(l, l.exitReason)
    /\ UNCHANGED outsideLocal

\* await exitFuture.promise in a handler returns
handlerReturns(caller) ==
    /\ caller \in local.waiting
    /\ local.exitFuture = "resolved"
    /\ local' = [local EXCEPT !.waiting = @ \ {caller}]
    /\ UNCHANGED outsideLocal

\* scanner.cleanup() is done: the launcher returns
cleanedUp ==
    /\ local.pc = "cleanup"
    /\ local' = [local EXCEPT !.pc = "returned", !.returned = local.returning]
    /\ UNCHANGED outsideLocal

NextLocal ==
    \/ \E ok \in BOOLEAN : bridgeStarted(ok)
    \/ \E ok \in BOOLEAN : scannerCreated(ok)
    \/ handleSessionMatchFailed
    \/ doAbort
    \/ doSwitch("switch")
    \/ queued
    \/ onMessage
    \/ exited
    \/ \E policy \in ExitReasons : failed(policy)
    \/ \E caller \in {"abort", "switch", "onMessage"} : handlerReturns(caller)
    \/ cleanedUp

SpecLocal == InitStore /\ [][NextLocal]_vars

\* an aborted process ends, the cleanup ends, a handler whose promise is
\* resolved goes on
SpecLocalFair ==
    /\ SpecLocal
    /\ WF_vars(local.aborted /\ (exited \/ \E policy \in ExitReasons : failed(policy)))
    /\ WF_vars(cleanedUp)
    /\ WF_vars(\E caller \in {"abort", "switch", "onMessage"} : handlerReturns(caller))


C37_LauncherStep ==
    /\ local.exitReason # "null" => local'.exitReason = local.exitReason
    /\ local'.pc \in {"cleanup", "returned"} => local'.exitFuture = "resolved"
    /\ local'.pc = "threw" => local'.waiting = {}
    /\ local'.pc = "returned" =>
          IF local'.exitReason # "null"
          THEN local'.returned = local'.exitReason
          ELSE local'.returned = "switch" /\ local'.queue > 0

\* C37: once exitReason is assigned no later event changes it, and the
\* launcher returns the assigned value (when nothing assigned it, the launcher
\* returns 'switch' for a message that was queued before the handlers were
\* registered); exitFuture is resolved by the time the launcher cleans up, so a
\* handler that awaits it returns.
C37_ExitReasonFixed ==
    /\ [][C37_LauncherStep]_vars
    /\ (local.waiting # {}) ~> (local.waiting = {})

\* the session match failed first, the 'switch' handler ran afterwards and
\* still waits: the launcher has returned 'exit'
C37_Witness ==
    /\ local.pc = "returned"
    /\ local.returned = "exit"
    /\ local.exitReason = "exit"
    /\ "switch" \in local.waiting


\* ---------------------------------------------------------------------------
\* cli/src/codex/codexRemoteLauncher.ts: runMainLoop
\*
\* The loop yields at its two awaits only: the wait for messages and the
\* turn (startSession or continueSession).  What runs between two awaits
\* is one step.  A batch of the queue is one message; storedSessionIdForResume
\* and the resume files choose the instructions of a new session and nothing
\* else, and are left out.

\* messages queued in one behaviour
MaxQueuedRemote == 3

ModeHashes == {"h1", "h2"}

\* client.clearSession(); wasCreated = false; currentModeHash = null, without
\* pending = message
clearSessionOnly(r, message) ==
    [r EXCEPT !.wasCreated = FALSE, !.currentModeHash = "null",
              !.modeChanges = @ + 1]

\* the branch taken when the mode hash has changed, up to its continue
clearSession(r, message) ==
    [r EXCEPT !.wasCreated = FALSE, !.currentModeHash = "null", !.pending = message,
              !.modeChanges = @ + 1]

\* currentModeHash = message.hash, then the await of startSession or
\* continueSession with the signal of the abortController
Turn(r, message) ==
    [r EXCEPT !.currentModeHash = message.hash, !.pc = "turn", !.signal = FALSE,
              !.turn = IF r.wasCreated THEN "continue" ELSE "start",
              !.handed = Append(@, [id |-> message.id, hash |-> message.hash,
                                    as |-> IF r.wasCreated THEN "continue" ELSE "start"])]

RECURSIVE LoopTop(_)
\* the body of the loop with a message in hand
Process(r, message) ==
    IF r.wasCreated /\ r.currentModeHash # "null" /\ message.hash # r.currentModeHash
    THEN LoopTop(clearSession(r, message))
    ELSE Turn(r, message)

\* while (!this.shouldExit): take pending, or wait for messages
LoopTop(r) ==
    IF r.shouldExit THEN [r EXCEPT !.pc = "ended"]
    ELSE IF r.pending # NULL THEN Process([r EXCEPT !.pending = NULL], r.pending)
    ELSE [r EXCEPT !.pc = "waiting", !.signal = FALSE]

\* session.queue.push
push(hash) ==
    /\ remote.pc # "ended"
    /\ remote.queued < MaxQueuedRemote
    /\ remote' = [remote EXCEPT !.queue = Append(@, [id |-> remote.queued + 1, hash |-> hash]),
                                !.queued = @ + 1]
    /\ UNCHANGED outsideRemote

\* waitForMessagesAndGetAsString resolves with a batch
batchReceived ==
    /\ remote.pc = "waiting"
    /\ ~remote.signal
    /\ remote.queue # <<>>
    /\ LET message == Head(remote.queue) IN
       remote' = Process([remote EXCEPT !.queue = Tail(@), !.taken = Append(@, message)],
                         message)
    /\ UNCHANGED outsideRemote

\* waitForMessagesAndGetAsString resolves with null: aborted, or the queue
\* was closed
waitEnded ==
    /\ remote.pc = "waiting"
    /\ remote' = IF remote.signal /\ ~remote.shouldExit
                 THEN LoopTop(remote)
                 ELSE [remote EXCEPT !.pc = "ended"]
    /\ UNCHANGED outsideRemote

\* abortController.abort(); queue.reset(); a new AbortController
Aborted(r) == [r EXCEPT !.signal = TRUE, !.queue = <<>>]

\* the RPC handler 'abort'
handleAbort ==
    /\ remote.pc # "ended"
    /\ remote' = Aborted(remote)
    /\ UNCHANGED outsideRemote

\* handleSwitchRequest, handleSwitchFromUi ('switch') and handleExitFromUi ('exit')
handleExit(reason) ==
    /\ remote.pc # "ended"
    /\ remote' = Aborted([remote EXCEPT !.exitReason = reason, !.shouldExit = TRUE])
    /\ UNCHANGED outsideRemote

\* the turn ends: resolved, rejected with an AbortError, or rejected otherwise
turnEnded(outcome) ==
    /\ remote.pc = "turn"
    /\ outcome = "AbortError" => remote.signal
    /\ remote' = LoopTop(
            CASE outcome = "resolved" ->
                    IF remote.turn = "start"
                    THEN [remote EXCEPT !.wasCreated = TRUE, !.first = FALSE]
                    ELSE remote
              [] outcome = "AbortError" ->
                    [remote EXCEPT !.wasCreated = FALSE, !.currentModeHash = "null"]
              [] OTHER -> remote)
    /\ UNCHANGED outsideRemote

NextRemote ==
    \/ \E hash \in ModeHashes : push(hash)
    \/ batchReceived
    \/ waitEnded
    \/ handleAbort
    \/ \E reason \in ExitReasons : handleExit(reason)
    \/ \E outcome \in {"resolved", "AbortError", "Error"} : turnEnded(outcome)

SpecRemote == InitStore /\ [][NextRemote]_vars

Took == Len(remote'.taken) > Len(remote.taken)

C38_LoopStep ==
    /\ Len(remote'.handed) = Len(remote'.taken)
    /\ \A i \in 1..Len(remote'.handed) :
          /\ i <= Len(remote'.taken)
          /\ remote'.handed[i].id = remote'.taken[i].id
          /\ remote'.handed[i].hash = remote'.taken[i].hash
    /\ remote'.pending = NULL
    /\ (Took /\ remote.wasCreated /\ Head(remote.queue).hash # remote.currentModeHash) =>
          /\ ~remote'.wasCreated
          /\ remote'.pc = "turn"
          /\ remote'.handed # <<>>
          /\ remote'.handed[Len(remote'.handed)] =
                [id |-> Head(remote.queue).id, hash |-> Head(remote.queue).hash, as |-> "start"]
    /\ (remote.pc = "waiting" /\ remote.signal /\ ~remote.shouldExit) => remote'.pc # "ended"
    /\ (remote.pc # "ended" /\ remote'.pc = "ended") =>
          remote.shouldExit \/ (remote.pc = "waiting" /\ ~remote.signal)

\* C38: the messages handed to the client are the messages taken from the
\* queue, each once and in the order taken; a message whose mode hash differs
\* from the running session's clears the session and is itself handed to
\* startSession next; an abort during the wait with shouldExit false leaves
\* the loop running; the loop ends only with shouldExit set or when the wait
\* ends without an abort.
C38_NothingDroppedOrReordered == [][C38_LoopStep]_vars

\* a second session was started for a message of another mode while a later
\* message waits in the queue
C38_Witness ==
    /\ remote.modeChanges = 1
    /\ remote.pc = "turn"
    /\ Len(remote.handed) = 2
    /\ remote.handed[2].as = "start"
    /\ remote.handed[1].hash # remote.handed[2].hash
    /\ remote.queue # <<>>


\* ---------------------------------------------------------------------------
\* cli/src/ui/ink/useSwitchControls.ts
\*
\* The input handler reads confirmationMode and actionInProgress as they were
\* at the render that created it (seen); ink calls the handler of the latest
\* render, so an input is handled once the states set by the previous one
\* are rendered.  Time passes in steps of UiTickMs; the 100 ms delay of a
\* confirmed action ends within the step it began in.

\* callbacks one behaviour schedules at most
MaxScheduled == 2

\* opts.confirmationTimeoutMs ?? 15000
DefaultConfirmationTimeoutMs == 15000
\* a confirmationTimeoutMs given by the caller
ShortTimeoutMs == 10000
UiTickMs == 5000

confirmationTimeoutMs(c) ==
    IF c.confirmationTimeoutMs = NULL THEN DefaultConfirmationTimeoutMs
    ELSE c.confirmationTimeoutMs[1]

\* what ink hands the handler: Ctrl-C, the space bar in its three spellings,
\* the release of a key, a letter, an arrow key
Keys ==
    {[ctrl |-> TRUE,  input |-> "c", name |-> "c",     sequence |-> "c"],
     [ctrl |-> FALSE, input |-> " ", name |-> "space", sequence |-> " "],
     [ctrl |-> FALSE, input |-> "",  name |-> "space", sequence |-> ""],
     [ctrl |-> FALSE, input |-> "",  name |-> "",      sequence |-> "CSI 32 u"],
     [ctrl |-> FALSE, input |-> " ", name |-> "space", sequence |-> "CSI 32 ; 1 : 3 u"],
     [ctrl |-> FALSE, input |-> "a", name |-> "a",     sequence |-> "a"],
     [ctrl |-> FALSE, input |-> "",  name |-> "up",    sequence |-> "CSI A"]}

\* /^\u001b\[[0-9;]*:3u$/.test(sequenceString)
isKeyRelease(sequenceString) == sequenceString = "CSI 32 ; 1 : 3 u"

\* Number(sequenceString.match(/^\u001b\[(\d+)(?:;(\d+))?u$/)[1]) === 32
isCsiUSpace(sequenceString) == sequenceString = "CSI 32 u"

\* keySequence ?? input
sequenceOf(key) == IF key.sequence # "" THEN key.sequence ELSE key.input

isSpace(c, key) ==
    /\ c.onSwitch
    /\ ~isKeyRelease(sequenceOf(key))
    /\ (key.input = " " \/ key.name = "space" \/ isCsiUSpace(sequenceOf(key)))

hasPrintableInput(key) == key.input # ""

resetConfirmation(c) == [c EXCEPT !.confirmationMode = "null", !.confirmationTimeoutRef = NULL]

\* the timer is the time left until it fires
setConfirmationWithTimeout(c, mode) ==
    [c EXCEPT !.confirmationMode = mode,
              !.confirmationTimeoutRef = <<confirmationTimeoutMs(c)>>]

\* the second press: resetConfirmation, setActionInProgress, and the callback
\* after the delay
Confirmed(c, action, callback) ==
    [resetConfirmation(c) EXCEPT !.actionInProgress = action,
                                 !.scheduled = Append(@, callback)]

\* the keys that confirm, as the user presses them
Pressed(c, key) ==
    IF key.ctrl /\ key.input = "c" THEN "ctrl-c"
    ELSE IF isSpace(c, key) THEN "space"
    ELSE IF hasPrintableInput(key) /\ ~isKeyRelease(sequenceOf(key)) THEN "none"
    ELSE c.pressed

\* the handler without its first test
handleInputUnguarded(c, key) ==
    IF key.ctrl /\ key.input = "c"
    THEN IF ~c.onExit
         THEN [(IF c.seen.confirmationMode # "null" THEN resetConfirmation(c) ELSE c)
                  EXCEPT !.running = FALSE]
         ELSE IF c.seen.confirmationMode = "exit"
         THEN Confirmed(c, "exiting", "onExit")
         ELSE setConfirmationWithTimeout(c, "exit")
    ELSE IF isSpace(c, key)
    THEN IF c.seen.confirmationMode = "switch"
         THEN Confirmed(c, "switching", "onSwitch")
         ELSE setConfirmationWithTimeout(c, "switch")
    ELSE IF c.seen.confirmationMode # "null" /\ hasPrintableInput(key)
              /\ ~isKeyRelease(sequenceOf(key))
    THEN resetConfirmation(c)
    ELSE c

\* the callback given to useInput, up to its await
handleInput(c, key) ==
    IF c.seen.actionInProgress # "null" THEN c ELSE handleInputUnguarded(c, key)

Rendered(c) ==
    c.seen = [confirmationMode |-> c.confirmationMode, actionInProgress |-> c.actionInProgress]

\* a key arrives
input(key) ==
    /\ controls.running
    /\ Rendered(controls)
    /\ Len(controls.scheduled) < MaxScheduled
    /\ controls' = [handleInput(controls, key) EXCEPT
            !.pressed = Pressed(controls, key),
            !.since = IF Pressed(controls, key) = controls.pressed
                         /\ ~(key.ctrl /\ key.input = "c") /\ ~isSpace(controls, key)
                      THEN @ ELSE 0]
    /\ UNCHANGED outsideControls

\* the states set are rendered: the handler of this render sees them
render ==
    /\ controls.running
    /\ ~Rendered(controls)
    /\ controls' = [controls EXCEPT !.seen = [confirmationMode |-> controls.confirmationMode,
                                              actionInProgress |-> controls.actionInProgress]]
    /\ UNCHANGED outsideControls

\* the confirmation timer fires, confirmationTimeoutMs after it was set
confirmationTimeout ==
    /\ controls.running
    /\ controls.confirmationTimeoutRef # NULL
    /\ controls.confirmationTimeoutRef[1] <= 0
    /\ controls' = resetConfirmation(controls)
    /\ UNCHANGED outsideControls

\* the time that passes in one step: UiTickMs, or what is left of the timer
Passing(c) ==
    IF c.confirmationTimeoutRef # NULL /\ c.confirmationTimeoutRef[1] < UiTickMs
    THEN c.confirmationTimeoutRef[1] ELSE UiTickMs

\* time passes: not past a timer that is due, and not past the 100 ms delay
tick ==
    /\ controls.running
    /\ Len(controls.invoked) = Len(controls.scheduled)
    /\ controls.confirmationTimeoutRef # NULL => controls.confirmationTimeoutRef[1] > 0
    /\ controls.since <= DefaultConfirmationTimeoutMs
    /\ controls' = [controls EXCEPT
            !.since = @ + Passing(controls),
            !.confirmationTimeoutRef = IF @ = NULL THEN NULL ELSE <<@[1] - Passing(controls)>>]
    /\ UNCHANGED outsideControls

\* the 100 ms delay of a confirmed action ends: onExit() or onSwitch()
invoke ==
    /\ controls.running
    /\ Len(controls.invoked) < Len(controls.scheduled)
    /\ controls' = [controls EXCEPT
            !.invoked = Append(@, controls.scheduled[Len(controls.invoked) + 1])]
    /\ UNCHANGED outsideControls

NextControls ==
    \/ \E key \in Keys : input(key)
    \/ render
    \/ confirmationTimeout
    \/ tick
    \/ invoke

InitControls ==
    /\ InitServer
    /\ InitDaemon
    /\ InitCodex
    /\ alive = NewAlive
    /\ local = Launched
    /\ remote = Looping
    /\ controls \in {[Mounted EXCEPT !.onExit = e, !.onSwitch = s, !.confirmationTimeoutMs = t] :
                        e, s \in BOOLEAN, t \in {NULL, <<ShortTimeoutMs>>}}

SpecControls == InitControls /\ [][NextControls]_vars

Schedules(callback) ==
    /\ Len(controls'.scheduled) > Len(controls.scheduled)
    /\ controls'.scheduled[Len(controls'.scheduled)] = callback

Count(seq, x) == Cardinality({i \in 1..Len(seq) : seq[i] = x})

C39_InputStep ==
    /\ Schedules("onExit") =>
          /\ controls.confirmationMode = "exit"
          /\ controls.pressed = "ctrl-c"
          /\ controls'.pressed = "ctrl-c"
          /\ controls.since <= confirmationTimeoutMs(controls)
    /\ Schedules("onSwitch") =>
          /\ controls.confirmationMode = "switch"
          /\ controls.pressed = "space"
          /\ controls'.pressed = "space"
          /\ controls.since <= confirmationTimeoutMs(controls)
    /\ controls.actionInProgress # "null" =>
          /\ controls'.scheduled = controls.scheduled
          /\ controls'.confirmationMode = controls.confirmationMode
          /\ controls'.actionInProgress = controls.actionInProgress
    /\ Count(controls'.scheduled, "onExit") <= 1
    /\ Count(controls'.scheduled, "onSwitch") <= 1
    /\ \A i \in 1..Len(controls'.invoked) : controls'.invoked[i] = controls'.scheduled[i]

====
